---- MODULE Spec2Model ----
(***************************************************************************)
(* Model of scripts/convert_toml_to_readme.py :: _normalize_markdownlint,  *)
(* the four-pass Markdown normalizer, and of scripts/readme_warning.py,    *)
(* the warning block at the top of README.md.                              *)
(*                                                                         *)
(* A text is a sequence of characters; a character is a one-character      *)
(* string.  The control characters other than \t, \n, \f and \r, the       *)
(* backtick and the characters outside ASCII are written by their code     *)
(* point, "U+" and four to six uppercase hexadecimal digits:               *)
(*   "U+FF08" fullwidth '('   "U+FF09" fullwidth ')'   "U+FF1A" fullwidth  *)
(*   ':'   "U+3002" ideographic full stop, "U+0060" the backtick,          *)
(*   "U+3000" ideographic space, "U+FF11" fullwidth '1'.                   *)
(* A document is a text that contains "\n"; a line is a text without it.   *)
(***************************************************************************)
EXTENDS Integers, Sequences, FiniteSets, TLC

(***************************************************************************)
(* Character classes: Python str.isspace and re \s, \d, \w on str.          *)
(***************************************************************************)
\* str.strip() / \s: the 29 white-space characters of Unicode
WS ==
    {"\t", "\n", "U+000B", "\f", "\r", "U+001C", "U+001D", "U+001E",
     "U+001F", " ", "U+0085", "U+00A0", "U+1680", "U+2000", "U+2001",
     "U+2002", "U+2003", "U+2004", "U+2005", "U+2006", "U+2007", "U+2008",
     "U+2009", "U+200A", "U+2028", "U+2029", "U+202F", "U+205F", "U+3000"}

\* \d: the decimal digits of Unicode, one row for each script, each row the
\* digits of value 0 to 9 in order
DigitRows ==
    <<<<"0", "1", "2", "3", "4", "5", "6", "7", "8", "9">>,
      <<"U+0660", "U+0661", "U+0662", "U+0663", "U+0664", "U+0665", "U+0666", "U+0667", "U+0668", "U+0669">>,
      <<"U+06F0", "U+06F1", "U+06F2", "U+06F3", "U+06F4", "U+06F5", "U+06F6", "U+06F7", "U+06F8", "U+06F9">>,
      <<"U+07C0", "U+07C1", "U+07C2", "U+07C3", "U+07C4", "U+07C5", "U+07C6", "U+07C7", "U+07C8", "U+07C9">>,
      <<"U+0966", "U+0967", "U+0968", "U+0969", "U+096A", "U+096B", "U+096C", "U+096D", "U+096E", "U+096F">>,
      <<"U+09E6", "U+09E7", "U+09E8", "U+09E9", "U+09EA", "U+09EB", "U+09EC", "U+09ED", "U+09EE", "U+09EF">>,
      <<"U+0A66", "U+0A67", "U+0A68", "U+0A69", "U+0A6A", "U+0A6B", "U+0A6C", "U+0A6D", "U+0A6E", "U+0A6F">>,
      <<"U+0AE6", "U+0AE7", "U+0AE8", "U+0AE9", "U+0AEA", "U+0AEB", "U+0AEC", "U+0AED", "U+0AEE", "U+0AEF">>,
      <<"U+0B66", "U+0B67", "U+0B68", "U+0B69", "U+0B6A", "U+0B6B", "U+0B6C", "U+0B6D", "U+0B6E", "U+0B6F">>,
      <<"U+0BE6", "U+0BE7", "U+0BE8", "U+0BE9", "U+0BEA", "U+0BEB", "U+0BEC", "U+0BED", "U+0BEE", "U+0BEF">>,
      <<"U+0C66", "U+0C67", "U+0C68", "U+0C69", "U+0C6A", "U+0C6B", "U+0C6C", "U+0C6D", "U+0C6E", "U+0C6F">>,
      <<"U+0CE6", "U+0CE7", "U+0CE8", "U+0CE9", "U+0CEA", "U+0CEB", "U+0CEC", "U+0CED", "U+0CEE", "U+0CEF">>,
      <<"U+0D66", "U+0D67", "U+0D68", "U+0D69", "U+0D6A", "U+0D6B", "U+0D6C", "U+0D6D", "U+0D6E", "U+0D6F">>,
      <<"U+0DE6", "U+0DE7", "U+0DE8", "U+0DE9", "U+0DEA", "U+0DEB", "U+0DEC", "U+0DED", "U+0DEE", "U+0DEF">>,
      <<"U+0E50", "U+0E51", "U+0E52", "U+0E53", "U+0E54", "U+0E55", "U+0E56", "U+0E57", "U+0E58", "U+0E59">>,
      <<"U+0ED0", "U+0ED1", "U+0ED2", "U+0ED3", "U+0ED4", "U+0ED5", "U+0ED6", "U+0ED7", "U+0ED8", "U+0ED9">>,
      <<"U+0F20", "U+0F21", "U+0F22", "U+0F23", "U+0F24", "U+0F25", "U+0F26", "U+0F27", "U+0F28", "U+0F29">>,
      <<"U+1040", "U+1041", "U+1042", "U+1043", "U+1044", "U+1045", "U+1046", "U+1047", "U+1048", "U+1049">>,
      <<"U+1090", "U+1091", "U+1092", "U+1093", "U+1094", "U+1095", "U+1096", "U+1097", "U+1098", "U+1099">>,
      <<"U+17E0", "U+17E1", "U+17E2", "U+17E3", "U+17E4", "U+17E5", "U+17E6", "U+17E7", "U+17E8", "U+17E9">>,
      <<"U+1810", "U+1811", "U+1812", "U+1813", "U+1814", "U+1815", "U+1816", "U+1817", "U+1818", "U+1819">>,
      <<"U+1946", "U+1947", "U+1948", "U+1949", "U+194A", "U+194B", "U+194C", "U+194D", "U+194E", "U+194F">>,
      <<"U+19D0", "U+19D1", "U+19D2", "U+19D3", "U+19D4", "U+19D5", "U+19D6", "U+19D7", "U+19D8", "U+19D9">>,
      <<"U+1A80", "U+1A81", "U+1A82", "U+1A83", "U+1A84", "U+1A85", "U+1A86", "U+1A87", "U+1A88", "U+1A89">>,
      <<"U+1A90", "U+1A91", "U+1A92", "U+1A93", "U+1A94", "U+1A95", "U+1A96", "U+1A97", "U+1A98", "U+1A99">>,
      <<"U+1B50", "U+1B51", "U+1B52", "U+1B53", "U+1B54", "U+1B55", "U+1B56", "U+1B57", "U+1B58", "U+1B59">>,
      <<"U+1BB0", "U+1BB1", "U+1BB2", "U+1BB3", "U+1BB4", "U+1BB5", "U+1BB6", "U+1BB7", "U+1BB8", "U+1BB9">>,
      <<"U+1C40", "U+1C41", "U+1C42", "U+1C43", "U+1C44", "U+1C45", "U+1C46", "U+1C47", "U+1C48", "U+1C49">>,
      <<"U+1C50", "U+1C51", "U+1C52", "U+1C53", "U+1C54", "U+1C55", "U+1C56", "U+1C57", "U+1C58", "U+1C59">>,
      <<"U+A620", "U+A621", "U+A622", "U+A623", "U+A624", "U+A625", "U+A626", "U+A627", "U+A628", "U+A629">>,
      <<"U+A8D0", "U+A8D1", "U+A8D2", "U+A8D3", "U+A8D4", "U+A8D5", "U+A8D6", "U+A8D7", "U+A8D8", "U+A8D9">>,
      <<"U+A900", "U+A901", "U+A902", "U+A903", "U+A904", "U+A905", "U+A906", "U+A907", "U+A908", "U+A909">>,
      <<"U+A9D0", "U+A9D1", "U+A9D2", "U+A9D3", "U+A9D4", "U+A9D5", "U+A9D6", "U+A9D7", "U+A9D8", "U+A9D9">>,
      <<"U+A9F0", "U+A9F1", "U+A9F2", "U+A9F3", "U+A9F4", "U+A9F5", "U+A9F6", "U+A9F7", "U+A9F8", "U+A9F9">>,
      <<"U+AA50", "U+AA51", "U+AA52", "U+AA53", "U+AA54", "U+AA55", "U+AA56", "U+AA57", "U+AA58", "U+AA59">>,
      <<"U+ABF0", "U+ABF1", "U+ABF2", "U+ABF3", "U+ABF4", "U+ABF5", "U+ABF6", "U+ABF7", "U+ABF8", "U+ABF9">>,
      <<"U+FF10", "U+FF11", "U+FF12", "U+FF13", "U+FF14", "U+FF15", "U+FF16", "U+FF17", "U+FF18", "U+FF19">>,
      <<"U+104A0", "U+104A1", "U+104A2", "U+104A3", "U+104A4", "U+104A5", "U+104A6", "U+104A7", "U+104A8", "U+104A9">>,
      <<"U+10D30", "U+10D31", "U+10D32", "U+10D33", "U+10D34", "U+10D35", "U+10D36", "U+10D37", "U+10D38", "U+10D39">>,
      <<"U+11066", "U+11067", "U+11068", "U+11069", "U+1106A", "U+1106B", "U+1106C", "U+1106D", "U+1106E", "U+1106F">>,
      <<"U+110F0", "U+110F1", "U+110F2", "U+110F3", "U+110F4", "U+110F5", "U+110F6", "U+110F7", "U+110F8", "U+110F9">>,
      <<"U+11136", "U+11137", "U+11138", "U+11139", "U+1113A", "U+1113B", "U+1113C", "U+1113D", "U+1113E", "U+1113F">>,
      <<"U+111D0", "U+111D1", "U+111D2", "U+111D3", "U+111D4", "U+111D5", "U+111D6", "U+111D7", "U+111D8", "U+111D9">>,
      <<"U+112F0", "U+112F1", "U+112F2", "U+112F3", "U+112F4", "U+112F5", "U+112F6", "U+112F7", "U+112F8", "U+112F9">>,
      <<"U+11450", "U+11451", "U+11452", "U+11453", "U+11454", "U+11455", "U+11456", "U+11457", "U+11458", "U+11459">>,
      <<"U+114D0", "U+114D1", "U+114D2", "U+114D3", "U+114D4", "U+114D5", "U+114D6", "U+114D7", "U+114D8", "U+114D9">>,
      <<"U+11650", "U+11651", "U+11652", "U+11653", "U+11654", "U+11655", "U+11656", "U+11657", "U+11658", "U+11659">>,
      <<"U+116C0", "U+116C1", "U+116C2", "U+116C3", "U+116C4", "U+116C5", "U+116C6", "U+116C7", "U+116C8", "U+116C9">>,
      <<"U+11730", "U+11731", "U+11732", "U+11733", "U+11734", "U+11735", "U+11736", "U+11737", "U+11738", "U+11739">>,
      <<"U+118E0", "U+118E1", "U+118E2", "U+118E3", "U+118E4", "U+118E5", "U+118E6", "U+118E7", "U+118E8", "U+118E9">>,
      <<"U+11950", "U+11951", "U+11952", "U+11953", "U+11954", "U+11955", "U+11956", "U+11957", "U+11958", "U+11959">>,
      <<"U+11C50", "U+11C51", "U+11C52", "U+11C53", "U+11C54", "U+11C55", "U+11C56", "U+11C57", "U+11C58", "U+11C59">>,
      <<"U+11D50", "U+11D51", "U+11D52", "U+11D53", "U+11D54", "U+11D55", "U+11D56", "U+11D57", "U+11D58", "U+11D59">>,
      <<"U+11DA0", "U+11DA1", "U+11DA2", "U+11DA3", "U+11DA4", "U+11DA5", "U+11DA6", "U+11DA7", "U+11DA8", "U+11DA9">>,
      <<"U+16A60", "U+16A61", "U+16A62", "U+16A63", "U+16A64", "U+16A65", "U+16A66", "U+16A67", "U+16A68", "U+16A69">>,
      <<"U+16AC0", "U+16AC1", "U+16AC2", "U+16AC3", "U+16AC4", "U+16AC5", "U+16AC6", "U+16AC7", "U+16AC8", "U+16AC9">>,
      <<"U+16B50", "U+16B51", "U+16B52", "U+16B53", "U+16B54", "U+16B55", "U+16B56", "U+16B57", "U+16B58", "U+16B59">>,
      <<"U+1D7CE", "U+1D7CF", "U+1D7D0", "U+1D7D1", "U+1D7D2", "U+1D7D3", "U+1D7D4", "U+1D7D5", "U+1D7D6", "U+1D7D7">>,
      <<"U+1D7D8", "U+1D7D9", "U+1D7DA", "U+1D7DB", "U+1D7DC", "U+1D7DD", "U+1D7DE", "U+1D7DF", "U+1D7E0", "U+1D7E1">>,
      <<"U+1D7E2", "U+1D7E3", "U+1D7E4", "U+1D7E5", "U+1D7E6", "U+1D7E7", "U+1D7E8", "U+1D7E9", "U+1D7EA", "U+1D7EB">>,
      <<"U+1D7EC", "U+1D7ED", "U+1D7EE", "U+1D7EF", "U+1D7F0", "U+1D7F1", "U+1D7F2", "U+1D7F3", "U+1D7F4", "U+1D7F5">>,
      <<"U+1D7F6", "U+1D7F7", "U+1D7F8", "U+1D7F9", "U+1D7FA", "U+1D7FB", "U+1D7FC", "U+1D7FD", "U+1D7FE", "U+1D7FF">>,
      <<"U+1E140", "U+1E141", "U+1E142", "U+1E143", "U+1E144", "U+1E145", "U+1E146", "U+1E147", "U+1E148", "U+1E149">>,
      <<"U+1E2F0", "U+1E2F1", "U+1E2F2", "U+1E2F3", "U+1E2F4", "U+1E2F5", "U+1E2F6", "U+1E2F7", "U+1E2F8", "U+1E2F9">>,
      <<"U+1E950", "U+1E951", "U+1E952", "U+1E953", "U+1E954", "U+1E955", "U+1E956", "U+1E957", "U+1E958", "U+1E959">>,
      <<"U+1FBF0", "U+1FBF1", "U+1FBF2", "U+1FBF3", "U+1FBF4", "U+1FBF5", "U+1FBF6", "U+1FBF7", "U+1FBF8", "U+1FBF9">>>>

Digits == UNION {{DigitRows[r][k] : k \in 1..10} : r \in 1..Len(DigitRows)}

\* the code point of a character written "U+" and hexadecimal digits
HexValue(h) ==
    CASE h = "0" -> 0 [] h = "1" -> 1 [] h = "2" -> 2 [] h = "3" -> 3
      [] h = "4" -> 4 [] h = "5" -> 5 [] h = "6" -> 6 [] h = "7" -> 7
      [] h = "8" -> 8 [] h = "9" -> 9 [] h = "A" -> 10 [] h = "B" -> 11
      [] h = "C" -> 12 [] h = "D" -> 13 [] h = "E" -> 14 [] h = "F" -> 15

RECURSIVE CodePointFrom(_, _, _)
CodePointFrom(c, k, acc) ==
    IF k > Len(c) THEN acc
    ELSE CodePointFrom(c, k + 1, 16 * acc + HexValue(SubSeq(c, k, k)))

CodePoint(c) == CodePointFrom(c, 3, 0)

\* \w among the characters written as themselves: letters, digits and "_"
AsciiWordChars ==
    {"0", "1", "2", "3", "4", "5", "6", "7", "8", "9", "_",
     "A", "B", "C", "D", "E", "F", "G", "H", "I", "J", "K", "L", "M",
     "N", "O", "P", "Q", "R", "S", "T", "U", "V", "W", "X", "Y", "Z",
     "a", "b", "c", "d", "e", "f", "g", "h", "i", "j", "k", "l", "m",
     "n", "o", "p", "q", "r", "s", "t", "u", "v", "w", "x", "y", "z"}

\* \w on str: the 734 ranges of code points, first and last, of the 133548
\* characters that are alphanumeric or "_"
WordRanges ==
    <<<<48, 57>>, <<65, 90>>, <<95, 95>>, <<97, 122>>, <<170, 170>>,
     <<178, 179>>, <<181, 181>>, <<185, 186>>, <<188, 190>>, <<192, 214>>,
     <<216, 246>>, <<248, 705>>, <<710, 721>>, <<736, 740>>, <<748, 748>>,
     <<750, 750>>, <<880, 884>>, <<886, 887>>, <<890, 893>>, <<895, 895>>,
     <<902, 902>>, <<904, 906>>, <<908, 908>>, <<910, 929>>, <<931, 1013>>,
     <<1015, 1153>>, <<1162, 1327>>, <<1329, 1366>>, <<1369, 1369>>,
     <<1376, 1416>>, <<1488, 1514>>, <<1519, 1522>>, <<1568, 1610>>,
     <<1632, 1641>>, <<1646, 1647>>, <<1649, 1747>>, <<1749, 1749>>,
     <<1765, 1766>>, <<1774, 1788>>, <<1791, 1791>>, <<1808, 1808>>,
     <<1810, 1839>>, <<1869, 1957>>, <<1969, 1969>>, <<1984, 2026>>,
     <<2036, 2037>>, <<2042, 2042>>, <<2048, 2069>>, <<2074, 2074>>,
     <<2084, 2084>>, <<2088, 2088>>, <<2112, 2136>>, <<2144, 2154>>,
     <<2160, 2183>>, <<2185, 2190>>, <<2208, 2249>>, <<2308, 2361>>,
     <<2365, 2365>>, <<2384, 2384>>, <<2392, 2401>>, <<2406, 2415>>,
     <<2417, 2432>>, <<2437, 2444>>, <<2447, 2448>>, <<2451, 2472>>,
     <<2474, 2480>>, <<2482, 2482>>, <<2486, 2489>>, <<2493, 2493>>,
     <<2510, 2510>>, <<2524, 2525>>, <<2527, 2529>>, <<2534, 2545>>,
     <<2548, 2553>>, <<2556, 2556>>, <<2565, 2570>>, <<2575, 2576>>,
     <<2579, 2600>>, <<2602, 2608>>, <<2610, 2611>>, <<2613, 2614>>,
     <<2616, 2617>>, <<2649, 2652>>, <<2654, 2654>>, <<2662, 2671>>,
     <<2674, 2676>>, <<2693, 2701>>, <<2703, 2705>>, <<2707, 2728>>,
     <<2730, 2736>>, <<2738, 2739>>, <<2741, 2745>>, <<2749, 2749>>,
     <<2768, 2768>>, <<2784, 2785>>, <<2790, 2799>>, <<2809, 2809>>,
     <<2821, 2828>>, <<2831, 2832>>, <<2835, 2856>>, <<2858, 2864>>,
     <<2866, 2867>>, <<2869, 2873>>, <<2877, 2877>>, <<2908, 2909>>,
     <<2911, 2913>>, <<2918, 2927>>, <<2929, 2935>>, <<2947, 2947>>,
     <<2949, 2954>>, <<2958, 2960>>, <<2962, 2965>>, <<2969, 2970>>,
     <<2972, 2972>>, <<2974, 2975>>, <<2979, 2980>>, <<2984, 2986>>,
     <<2990, 3001>>, <<3024, 3024>>, <<3046, 3058>>, <<3077, 3084>>,
     <<3086, 3088>>, <<3090, 3112>>, <<3114, 3129>>, <<3133, 3133>>,
     <<3160, 3162>>, <<3165, 3165>>, <<3168, 3169>>, <<3174, 3183>>,
     <<3192, 3198>>, <<3200, 3200>>, <<3205, 3212>>, <<3214, 3216>>,
     <<3218, 3240>>, <<3242, 3251>>, <<3253, 3257>>, <<3261, 3261>>,
     <<3293, 3294>>, <<3296, 3297>>, <<3302, 3311>>, <<3313, 3314>>,
     <<3332, 3340>>, <<3342, 3344>>, <<3346, 3386>>, <<3389, 3389>>,
     <<3406, 3406>>, <<3412, 3414>>, <<3416, 3425>>, <<3430, 3448>>,
     <<3450, 3455>>, <<3461, 3478>>, <<3482, 3505>>, <<3507, 3515>>,
     <<3517, 3517>>, <<3520, 3526>>, <<3558, 3567>>, <<3585, 3632>>,
     <<3634, 3635>>, <<3648, 3654>>, <<3664, 3673>>, <<3713, 3714>>,
     <<3716, 3716>>, <<3718, 3722>>, <<3724, 3747>>, <<3749, 3749>>,
     <<3751, 3760>>, <<3762, 3763>>, <<3773, 3773>>, <<3776, 3780>>,
     <<3782, 3782>>, <<3792, 3801>>, <<3804, 3807>>, <<3840, 3840>>,
     <<3872, 3891>>, <<3904, 3911>>, <<3913, 3948>>, <<3976, 3980>>,
     <<4096, 4138>>, <<4159, 4169>>, <<4176, 4181>>, <<4186, 4189>>,
     <<4193, 4193>>, <<4197, 4198>>, <<4206, 4208>>, <<4213, 4225>>,
     <<4238, 4238>>, <<4240, 4249>>, <<4256, 4293>>, <<4295, 4295>>,
     <<4301, 4301>>, <<4304, 4346>>, <<4348, 4680>>, <<4682, 4685>>,
     <<4688, 4694>>, <<4696, 4696>>, <<4698, 4701>>, <<4704, 4744>>,
     <<4746, 4749>>, <<4752, 4784>>, <<4786, 4789>>, <<4792, 4798>>,
     <<4800, 4800>>, <<4802, 4805>>, <<4808, 4822>>, <<4824, 4880>>,
     <<4882, 4885>>, <<4888, 4954>>, <<4969, 4988>>, <<4992, 5007>>,
     <<5024, 5109>>, <<5112, 5117>>, <<5121, 5740>>, <<5743, 5759>>,
     <<5761, 5786>>, <<5792, 5866>>, <<5870, 5880>>, <<5888, 5905>>,
     <<5919, 5937>>, <<5952, 5969>>, <<5984, 5996>>, <<5998, 6000>>,
     <<6016, 6067>>, <<6103, 6103>>, <<6108, 6108>>, <<6112, 6121>>,
     <<6128, 6137>>, <<6160, 6169>>, <<6176, 6264>>, <<6272, 6276>>,
     <<6279, 6312>>, <<6314, 6314>>, <<6320, 6389>>, <<6400, 6430>>,
     <<6470, 6509>>, <<6512, 6516>>, <<6528, 6571>>, <<6576, 6601>>,
     <<6608, 6618>>, <<6656, 6678>>, <<6688, 6740>>, <<6784, 6793>>,
     <<6800, 6809>>, <<6823, 6823>>, <<6917, 6963>>, <<6981, 6988>>,
     <<6992, 7001>>, <<7043, 7072>>, <<7086, 7141>>, <<7168, 7203>>,
     <<7232, 7241>>, <<7245, 7293>>, <<7296, 7304>>, <<7312, 7354>>,
     <<7357, 7359>>, <<7401, 7404>>, <<7406, 7411>>, <<7413, 7414>>,
     <<7418, 7418>>, <<7424, 7615>>, <<7680, 7957>>, <<7960, 7965>>,
     <<7968, 8005>>, <<8008, 8013>>, <<8016, 8023>>, <<8025, 8025>>,
     <<8027, 8027>>, <<8029, 8029>>, <<8031, 8061>>, <<8064, 8116>>,
     <<8118, 8124>>, <<8126, 8126>>, <<8130, 8132>>, <<8134, 8140>>,
     <<8144, 8147>>, <<8150, 8155>>, <<8160, 8172>>, <<8178, 8180>>,
     <<8182, 8188>>, <<8304, 8305>>, <<8308, 8313>>, <<8319, 8329>>,
     <<8336, 8348>>, <<8450, 8450>>, <<8455, 8455>>, <<8458, 8467>>,
     <<8469, 8469>>, <<8473, 8477>>, <<8484, 8484>>, <<8486, 8486>>,
     <<8488, 8488>>, <<8490, 8493>>, <<8495, 8505>>, <<8508, 8511>>,
     <<8517, 8521>>, <<8526, 8526>>, <<8528, 8585>>, <<9312, 9371>>,
     <<9450, 9471>>, <<10102, 10131>>, <<11264, 11492>>, <<11499, 11502>>,
     <<11506, 11507>>, <<11517, 11517>>, <<11520, 11557>>, <<11559, 11559>>,
     <<11565, 11565>>, <<11568, 11623>>, <<11631, 11631>>, <<11648, 11670>>,
     <<11680, 11686>>, <<11688, 11694>>, <<11696, 11702>>, <<11704, 11710>>,
     <<11712, 11718>>, <<11720, 11726>>, <<11728, 11734>>, <<11736, 11742>>,
     <<11823, 11823>>, <<12293, 12295>>, <<12321, 12329>>, <<12337, 12341>>,
     <<12344, 12348>>, <<12353, 12438>>, <<12445, 12447>>, <<12449, 12538>>,
     <<12540, 12543>>, <<12549, 12591>>, <<12593, 12686>>, <<12690, 12693>>,
     <<12704, 12735>>, <<12784, 12799>>, <<12832, 12841>>, <<12872, 12879>>,
     <<12881, 12895>>, <<12928, 12937>>, <<12977, 12991>>, <<13312, 19903>>,
     <<19968, 42124>>, <<42192, 42237>>, <<42240, 42508>>, <<42512, 42539>>,
     <<42560, 42606>>, <<42623, 42653>>, <<42656, 42735>>, <<42775, 42783>>,
     <<42786, 42888>>, <<42891, 42954>>, <<42960, 42961>>, <<42963, 42963>>,
     <<42965, 42969>>, <<42994, 43009>>, <<43011, 43013>>, <<43015, 43018>>,
     <<43020, 43042>>, <<43056, 43061>>, <<43072, 43123>>, <<43138, 43187>>,
     <<43216, 43225>>, <<43250, 43255>>, <<43259, 43259>>, <<43261, 43262>>,
     <<43264, 43301>>, <<43312, 43334>>, <<43360, 43388>>, <<43396, 43442>>,
     <<43471, 43481>>, <<43488, 43492>>, <<43494, 43518>>, <<43520, 43560>>,
     <<43584, 43586>>, <<43588, 43595>>, <<43600, 43609>>, <<43616, 43638>>,
     <<43642, 43642>>, <<43646, 43695>>, <<43697, 43697>>, <<43701, 43702>>,
     <<43705, 43709>>, <<43712, 43712>>, <<43714, 43714>>, <<43739, 43741>>,
     <<43744, 43754>>, <<43762, 43764>>, <<43777, 43782>>, <<43785, 43790>>,
     <<43793, 43798>>, <<43808, 43814>>, <<43816, 43822>>, <<43824, 43866>>,
     <<43868, 43881>>, <<43888, 44002>>, <<44016, 44025>>, <<44032, 55203>>,
     <<55216, 55238>>, <<55243, 55291>>, <<63744, 64109>>, <<64112, 64217>>,
     <<64256, 64262>>, <<64275, 64279>>, <<64285, 64285>>, <<64287, 64296>>,
     <<64298, 64310>>, <<64312, 64316>>, <<64318, 64318>>, <<64320, 64321>>,
     <<64323, 64324>>, <<64326, 64433>>, <<64467, 64829>>, <<64848, 64911>>,
     <<64914, 64967>>, <<65008, 65019>>, <<65136, 65140>>, <<65142, 65276>>,
     <<65296, 65305>>, <<65313, 65338>>, <<65345, 65370>>, <<65382, 65470>>,
     <<65474, 65479>>, <<65482, 65487>>, <<65490, 65495>>, <<65498, 65500>>,
     <<65536, 65547>>, <<65549, 65574>>, <<65576, 65594>>, <<65596, 65597>>,
     <<65599, 65613>>, <<65616, 65629>>, <<65664, 65786>>, <<65799, 65843>>,
     <<65856, 65912>>, <<65930, 65931>>, <<66176, 66204>>, <<66208, 66256>>,
     <<66273, 66299>>, <<66304, 66339>>, <<66349, 66378>>, <<66384, 66421>>,
     <<66432, 66461>>, <<66464, 66499>>, <<66504, 66511>>, <<66513, 66517>>,
     <<66560, 66717>>, <<66720, 66729>>, <<66736, 66771>>, <<66776, 66811>>,
     <<66816, 66855>>, <<66864, 66915>>, <<66928, 66938>>, <<66940, 66954>>,
     <<66956, 66962>>, <<66964, 66965>>, <<66967, 66977>>, <<66979, 66993>>,
     <<66995, 67001>>, <<67003, 67004>>, <<67072, 67382>>, <<67392, 67413>>,
     <<67424, 67431>>, <<67456, 67461>>, <<67463, 67504>>, <<67506, 67514>>,
     <<67584, 67589>>, <<67592, 67592>>, <<67594, 67637>>, <<67639, 67640>>,
     <<67644, 67644>>, <<67647, 67669>>, <<67672, 67702>>, <<67705, 67742>>,
     <<67751, 67759>>, <<67808, 67826>>, <<67828, 67829>>, <<67835, 67867>>,
     <<67872, 67897>>, <<67968, 68023>>, <<68028, 68047>>, <<68050, 68096>>,
     <<68112, 68115>>, <<68117, 68119>>, <<68121, 68149>>, <<68160, 68168>>,
     <<68192, 68222>>, <<68224, 68255>>, <<68288, 68295>>, <<68297, 68324>>,
     <<68331, 68335>>, <<68352, 68405>>, <<68416, 68437>>, <<68440, 68466>>,
     <<68472, 68497>>, <<68521, 68527>>, <<68608, 68680>>, <<68736, 68786>>,
     <<68800, 68850>>, <<68858, 68899>>, <<68912, 68921>>, <<69216, 69246>>,
     <<69248, 69289>>, <<69296, 69297>>, <<69376, 69415>>, <<69424, 69445>>,
     <<69457, 69460>>, <<69488, 69505>>, <<69552, 69579>>, <<69600, 69622>>,
     <<69635, 69687>>, <<69714, 69743>>, <<69745, 69746>>, <<69749, 69749>>,
     <<69763, 69807>>, <<69840, 69864>>, <<69872, 69881>>, <<69891, 69926>>,
     <<69942, 69951>>, <<69956, 69956>>, <<69959, 69959>>, <<69968, 70002>>,
     <<70006, 70006>>, <<70019, 70066>>, <<70081, 70084>>, <<70096, 70106>>,
     <<70108, 70108>>, <<70113, 70132>>, <<70144, 70161>>, <<70163, 70187>>,
     <<70272, 70278>>, <<70280, 70280>>, <<70282, 70285>>, <<70287, 70301>>,
     <<70303, 70312>>, <<70320, 70366>>, <<70384, 70393>>, <<70405, 70412>>,
     <<70415, 70416>>, <<70419, 70440>>, <<70442, 70448>>, <<70450, 70451>>,
     <<70453, 70457>>, <<70461, 70461>>, <<70480, 70480>>, <<70493, 70497>>,
     <<70656, 70708>>, <<70727, 70730>>, <<70736, 70745>>, <<70751, 70753>>,
     <<70784, 70831>>, <<70852, 70853>>, <<70855, 70855>>, <<70864, 70873>>,
     <<71040, 71086>>, <<71128, 71131>>, <<71168, 71215>>, <<71236, 71236>>,
     <<71248, 71257>>, <<71296, 71338>>, <<71352, 71352>>, <<71360, 71369>>,
     <<71424, 71450>>, <<71472, 71483>>, <<71488, 71494>>, <<71680, 71723>>,
     <<71840, 71922>>, <<71935, 71942>>, <<71945, 71945>>, <<71948, 71955>>,
     <<71957, 71958>>, <<71960, 71983>>, <<71999, 71999>>, <<72001, 72001>>,
     <<72016, 72025>>, <<72096, 72103>>, <<72106, 72144>>, <<72161, 72161>>,
     <<72163, 72163>>, <<72192, 72192>>, <<72203, 72242>>, <<72250, 72250>>,
     <<72272, 72272>>, <<72284, 72329>>, <<72349, 72349>>, <<72368, 72440>>,
     <<72704, 72712>>, <<72714, 72750>>, <<72768, 72768>>, <<72784, 72812>>,
     <<72818, 72847>>, <<72960, 72966>>, <<72968, 72969>>, <<72971, 73008>>,
     <<73030, 73030>>, <<73040, 73049>>, <<73056, 73061>>, <<73063, 73064>>,
     <<73066, 73097>>, <<73112, 73112>>, <<73120, 73129>>, <<73440, 73458>>,
     <<73648, 73648>>, <<73664, 73684>>, <<73728, 74649>>, <<74752, 74862>>,
     <<74880, 75075>>, <<77712, 77808>>, <<77824, 78894>>, <<82944, 83526>>,
     <<92160, 92728>>, <<92736, 92766>>, <<92768, 92777>>, <<92784, 92862>>,
     <<92864, 92873>>, <<92880, 92909>>, <<92928, 92975>>, <<92992, 92995>>,
     <<93008, 93017>>, <<93019, 93025>>, <<93027, 93047>>, <<93053, 93071>>,
     <<93760, 93846>>, <<93952, 94026>>, <<94032, 94032>>, <<94099, 94111>>,
     <<94176, 94177>>, <<94179, 94179>>, <<94208, 100343>>,
     <<100352, 101589>>, <<101632, 101640>>, <<110576, 110579>>,
     <<110581, 110587>>, <<110589, 110590>>, <<110592, 110882>>,
     <<110928, 110930>>, <<110948, 110951>>, <<110960, 111355>>,
     <<113664, 113770>>, <<113776, 113788>>, <<113792, 113800>>,
     <<113808, 113817>>, <<119520, 119539>>, <<119648, 119672>>,
     <<119808, 119892>>, <<119894, 119964>>, <<119966, 119967>>,
     <<119970, 119970>>, <<119973, 119974>>, <<119977, 119980>>,
     <<119982, 119993>>, <<119995, 119995>>, <<119997, 120003>>,
     <<120005, 120069>>, <<120071, 120074>>, <<120077, 120084>>,
     <<120086, 120092>>, <<120094, 120121>>, <<120123, 120126>>,
     <<120128, 120132>>, <<120134, 120134>>, <<120138, 120144>>,
     <<120146, 120485>>, <<120488, 120512>>, <<120514, 120538>>,
     <<120540, 120570>>, <<120572, 120596>>, <<120598, 120628>>,
     <<120630, 120654>>, <<120656, 120686>>, <<120688, 120712>>,
     <<120714, 120744>>, <<120746, 120770>>, <<120772, 120779>>,
     <<120782, 120831>>, <<122624, 122654>>, <<123136, 123180>>,
     <<123191, 123197>>, <<123200, 123209>>, <<123214, 123214>>,
     <<123536, 123565>>, <<123584, 123627>>, <<123632, 123641>>,
     <<124896, 124902>>, <<124904, 124907>>, <<124909, 124910>>,
     <<124912, 124926>>, <<124928, 125124>>, <<125127, 125135>>,
     <<125184, 125251>>, <<125259, 125259>>, <<125264, 125273>>,
     <<126065, 126123>>, <<126125, 126127>>, <<126129, 126132>>,
     <<126209, 126253>>, <<126255, 126269>>, <<126464, 126467>>,
     <<126469, 126495>>, <<126497, 126498>>, <<126500, 126500>>,
     <<126503, 126503>>, <<126505, 126514>>, <<126516, 126519>>,
     <<126521, 126521>>, <<126523, 126523>>, <<126530, 126530>>,
     <<126535, 126535>>, <<126537, 126537>>, <<126539, 126539>>,
     <<126541, 126543>>, <<126545, 126546>>, <<126548, 126548>>,
     <<126551, 126551>>, <<126553, 126553>>, <<126555, 126555>>,
     <<126557, 126557>>, <<126559, 126559>>, <<126561, 126562>>,
     <<126564, 126564>>, <<126567, 126570>>, <<126572, 126578>>,
     <<126580, 126583>>, <<126585, 126588>>, <<126590, 126590>>,
     <<126592, 126601>>, <<126603, 126619>>, <<126625, 126627>>,
     <<126629, 126633>>, <<126635, 126651>>, <<127232, 127244>>,
     <<130032, 130041>>, <<131072, 173791>>, <<173824, 177976>>,
     <<177984, 178205>>, <<178208, 183969>>, <<183984, 191456>>,
     <<194560, 195101>>, <<196608, 201546>>>>

\* \w matches c
WordChar(c) ==
    IF Len(c) = 1 THEN c \in AsciiWordChars
    ELSE \E cp \in {CodePoint(c)} :
         \E r \in 1..Len(WordRanges) :
             WordRanges[r][1] <= cp /\ cp <= WordRanges[r][2]

HeadingPunct == {"U+FF1A", ":", "U+3002", "U+FF0E", "U+FF0C", ",", "U+FF1B",
                 ";", "U+FF01", "U+FF1F", "!", "?", "U+3001"}

Min(a, b) == IF a < b THEN a ELSE b

Max(a, b) == IF a > b THEN a ELSE b

(***************************************************************************)
(* Basic text operations.                                                  *)
(***************************************************************************)
\* s[a:b] with 0-based half-open Python indices, 0 <= a, b <= len(s)
Slice(s, a, b) == SubSeq(s, a + 1, b)

\* s[a:]
From(s, a) == SubSeq(s, a + 1, Len(s))

StartsWith(s, p) == Len(s) >= Len(p) /\ SubSeq(s, 1, Len(p)) = p

\* p in s (substring test)
Contains(s, p) == \E k \in 0..(Len(s) - Len(p)) : Slice(s, k, k + Len(p)) = p

\* number of leading characters of s that belong to the class cls
RECURSIVE RunLen(_, _, _)
RunLen(s, k, cls) ==
    IF k < Len(s) /\ s[k + 1] \in cls THEN RunLen(s, k + 1, cls) ELSE k

\* number of trailing characters of s that belong to cls
RECURSIVE TrailLen(_, _, _)
TrailLen(s, n, cls) ==
    IF n < Len(s) /\ s[Len(s) - n] \in cls THEN TrailLen(s, n + 1, cls) ELSE n

LStrip(s) == From(s, RunLen(s, 0, WS))

RStrip(s) == Slice(s, 0, Len(s) - TrailLen(s, 0, WS))

Strip(s) == LStrip(RStrip(s))

RStripChars(s, cls) == Slice(s, 0, Len(s) - TrailLen(s, 0, cls))

Spaces(n) == [k \in 1..n |-> " "]

Hashes(n) == [k \in 1..n |-> "#"]

\* str(n) for n >= 0
RECURSIVE ToDigits(_)
ToDigits(n) ==
    LET d == CASE n % 10 = 0 -> "0" [] n % 10 = 1 -> "1" [] n % 10 = 2 -> "2"
               [] n % 10 = 3 -> "3" [] n % 10 = 4 -> "4" [] n % 10 = 5 -> "5"
               [] n % 10 = 6 -> "6" [] n % 10 = 7 -> "7" [] n % 10 = 8 -> "8"
               [] OTHER -> "9"
    IN  IF n < 10 THEN <<d>> ELSE ToDigits(n \div 10) \o <<d>>

\* str.expandtabs(4)
RECURSIVE ExpandTabsFrom(_, _, _)
ExpandTabsFrom(s, k, col) ==
    IF k > Len(s) THEN <<>>
    ELSE IF s[k] = "\t"
         THEN Spaces(4 - (col % 4)) \o ExpandTabsFrom(s, k + 1, col + 4 - (col % 4))
         ELSE <<s[k]>> \o ExpandTabsFrom(s, k + 1,
                                         IF s[k] \in {"\n", "\r"} THEN 0 ELSE col + 1)

ExpandTabs(s) == ExpandTabsFrom(s, 1, 0)

\* md.replace("\r\n", "\n").replace("\r", "\n")
RECURSIVE NormalizeNewlines(_)
NormalizeNewlines(s) ==
    IF s = <<>> THEN <<>>
    ELSE IF s[1] = "\r"
         THEN IF Len(s) >= 2 /\ s[2] = "\n"
              THEN <<"\n">> \o NormalizeNewlines(From(s, 2))
              ELSE <<"\n">> \o NormalizeNewlines(From(s, 1))
         ELSE <<s[1]>> \o NormalizeNewlines(From(s, 1))

\* s.split("\n"): always at least one piece
RECURSIVE SplitLines(_)
SplitLines(s) ==
    IF \A k \in 1..Len(s) : s[k] # "\n" THEN <<s>>
    ELSE LET n == CHOOSE k \in 1..Len(s) :
                      s[k] = "\n" /\ \A j \in 1..(k - 1) : s[j] # "\n"
         IN  <<Slice(s, 0, n - 1)>> \o SplitLines(From(s, n))

\* "\n".join(lines)
RECURSIVE JoinLines(_)
JoinLines(lines) ==
    IF lines = <<>> THEN <<>>
    ELSE IF Len(lines) = 1 THEN lines[1]
    ELSE lines[1] \o <<"\n">> \o JoinLines(Tail(lines))

(***************************************************************************)
(* The line patterns.  A match is reported by the 0-based end position of  *)
(* the match (Python m.end()); -1 means no match.                          *)
(***************************************************************************)
\* _re_heading / _re_heading_level: ^#{1,6}\s+ ; the marks are the first
\* RunLen(s, 0, {"#"}) characters
ReHeadingEnd(s) ==
    LET h == RunLen(s, 0, {"#"})
        e == RunLen(s, h, WS)
    IN  IF h >= 1 /\ h <= 6 /\ e > h THEN e ELSE -1

\* _re_ul_marker: ^(?P<indent>\s*)[*+]\s+
ReUlMarkerEnd(s) ==
    LET n == RunLen(s, 0, WS)
        e == RunLen(s, n + 1, WS)
    IN  IF n < Len(s) /\ s[n + 1] \in {"*", "+"} /\ e > n + 1 THEN e ELSE -1

\* _re_ul_dash: ^(?P<indent>\s*)-\s+
ReUlDashEnd(s) ==
    LET n == RunLen(s, 0, WS)
        e == RunLen(s, n + 1, WS)
    IN  IF n < Len(s) /\ s[n + 1] = "-" /\ e > n + 1 THEN e ELSE -1

\* _re_ol_marker: ^(?P<indent>\s*)(?P<num>\d+)(?P<delim>[.)])\s+
\* indent = s[0:n], num = s[n:d], delim = s[d]
ReOlMarkerEnd(s) ==
    LET n == RunLen(s, 0, WS)
        d == RunLen(s, n, Digits)
        e == RunLen(s, d + 1, WS)
    IN  IF d > n /\ d < Len(s) /\ s[d + 1] \in {".", ")"} /\ e > d + 1
        THEN e ELSE -1

\* end of the digits of an ordered marker (start of the delimiter)
OlNumEnd(s) == RunLen(s, RunLen(s, 0, WS), Digits)

\* len(m.group("indent")) for the three marker patterns
IndentLen(s) == RunLen(s, 0, WS)

\* leading_ws_len
leading_ws_len(s) == Len(s) - Len(LStrip(s))

\* bool(_re_list.match(s)): ^\s*(?:[-*+]\s+|\d+[.)]\s+)
ReListMatch(s) ==
    ReUlMarkerEnd(s) >= 0 \/ ReUlDashEnd(s) >= 0 \/ ReOlMarkerEnd(s) >= 0

is_blank(ln) == Strip(ln) = <<>>

\* length of the blockquote prefix ^\s*(?:>\s*)+ , 0 when the line has none
RECURSIVE QuoteGroups(_, _)
QuoteGroups(ln, k) ==
    IF k < Len(ln) /\ ln[k + 1] = ">"
    THEN QuoteGroups(ln, RunLen(ln, k + 1, WS))
    ELSE k

QuotePrefixLen(ln) ==
    LET n == RunLen(ln, 0, WS)
    IN  IF n < Len(ln) /\ ln[n + 1] = ">" THEN QuoteGroups(ln, n) ELSE 0

split_blockquote_prefix(ln) ==
    [prefix |-> Slice(ln, 0, QuotePrefixLen(ln)),
     body   |-> From(ln, QuotePrefixLen(ln))]

strip_blockquote(ln) == split_blockquote_prefix(ln).body

FenceMarker == <<"U+0060", "U+0060", "U+0060">>

is_code_fence(ln) == StartsWith(Strip(ln), FenceMarker)

is_heading(ln) == ReHeadingEnd(Strip(strip_blockquote(ln))) >= 0

is_list(ln) == ReListMatch(strip_blockquote(ln))

\* is_blank, or re.fullmatch(r"\s*(?:>\s*)+\s*", ln)
is_blankish(ln) ==
    is_blank(ln) \/ (QuotePrefixLen(ln) > 0 /\ QuotePrefixLen(ln) = Len(ln))

strip_heading_trailing_punct(heading_line) ==
    LET s == RStrip(heading_line)
        e == ReHeadingEnd(s)
        marks == Slice(s, 0, RunLen(s, 0, {"#"}))
        rest == RStripChars(RStrip(From(s, e)), HeadingPunct)
    IN  IF e < 0 THEN heading_line
        ELSE RStrip(marks \o <<" ">> \o rest)

(***************************************************************************)
(* Inline rewriters.                                                       *)
(***************************************************************************)
\* one match of _re_bare_url = (?<!\()(?<!<)https?://[^\s>]+ starting at the
\* 0-based position p: the end of the match, or -1
UrlMatchEnd(s, p) ==
    LET a == IF Slice(s, p, Min(Len(s), p + 8)) = <<"h", "t", "t", "p", "s", ":", "/", "/">>
             THEN p + 8
             ELSE IF Slice(s, p, Min(Len(s), p + 7)) = <<"h", "t", "t", "p", ":", "/", "/">>
                  THEN p + 7
                  ELSE -1
        e == RunLen(s, a, {c \in {s[k] : k \in 1..Len(s)} : c \notin WS /\ c # ">"})
    IN  IF a >= 0 /\ (p = 0 \/ s[p] \notin {"(", "<"}) /\ e > a THEN e ELSE -1

\* how one match is rewritten: lambda m: f"<{m.group(0)}>"
WrapUrl(u) == <<"<">> \o u \o <<">">>

\* _re_bare_url.sub(..., body): leftmost, non-overlapping matches
RECURSIVE ReBareUrlSub(_, _)
ReBareUrlSub(s, p) ==
    IF p >= Len(s) THEN <<>>
    ELSE IF UrlMatchEnd(s, p) >= 0
         THEN WrapUrl(Slice(s, p, UrlMatchEnd(s, p))) \o ReBareUrlSub(s, UrlMatchEnd(s, p))
         ELSE <<s[p + 1]>> \o ReBareUrlSub(s, p + 1)

HttpScheme == <<"h", "t", "t", "p", ":", "/", "/">>

HttpsScheme == <<"h", "t", "t", "p", "s", ":", "/", "/">>

\* MD034
WrapBareUrls(body) ==
    IF Contains(body, HttpScheme) \/ Contains(body, HttpsScheme)
    THEN ReBareUrlSub(body, 0)
    ELSE body

BoldMarks == {<<"*", "*">>, <<"_", "_">>}

\* _re_bold_only = ^(?P<indent>\s*)(?:\*\*|__)(?P<text>.+?)(?:\*\*|__)\s*$
\* the lengths k of text for which the rest of the pattern matches
BoldTextLens(s) ==
    LET n == RunLen(s, 0, WS)
    IN  IF Slice(s, n, Min(Len(s), n + 2)) \notin BoldMarks THEN {}
        ELSE {k \in 1..(Len(s) - n - 4) :
                /\ Slice(s, n + 2 + k, n + 4 + k) \in BoldMarks
                /\ \A j \in (n + 5 + k)..Len(s) : s[j] \in WS}

\* m.group("text") of the lazy match
BoldText(s) ==
    LET n == RunLen(s, 0, WS)
        k == CHOOSE k \in BoldTextLens(s) : \A j \in BoldTextLens(s) : k <= j
    IN  Slice(s, n + 2, n + 2 + k)

PromotedLevelUnclamped(last_level) == last_level + 1

PromotedLevel(last_level) == Min(Max(last_level + 1, 2), 6)

\* MD036, for a line outside a blockquote
PromoteBold(body, last_level) ==
    IF BoldTextLens(body) # {} /\ IndentLen(body) = 0
    THEN LET text == Strip(BoldText(body))
         IN  IF /\ text # <<>>
                /\ ~StartsWith(text, <<"#">>)
                /\ ~StartsWith(text, <<">">>)
                /\ ~ReListMatch(text)
             THEN Hashes(PromotedLevel(last_level)) \o <<" ">> \o text
             ELSE body
    ELSE body

\* re.search(r"\b\d+%\s*$", rest)
ends_with_percent(rest) ==
    LET t == RStrip(rest)
        d == IF t = <<>> THEN 0 ELSE TrailLen(Slice(t, 0, Len(t) - 1), 0, Digits)
        q == Len(t) - 1 - d
    IN  /\ t # <<>>
        /\ t[Len(t)] = "%"
        /\ d >= 1
        /\ (q = 0 \/ ~WordChar(t[q]))

\* re.search(r"[（(]\s*\d+%\s*[）)]\s*$", rest)
looks_like_percent_item(rest) ==
    LET t == RStrip(rest)
        a == IF t = <<>> THEN <<>> ELSE RStrip(Slice(t, 0, Len(t) - 1))
        b == IF a = <<>> THEN <<>> ELSE Slice(a, 0, Len(a) - 1)
        d == TrailLen(b, 0, Digits)
        c == RStrip(Slice(b, 0, Len(b) - d))
    IN  /\ t # <<>>
        /\ t[Len(t)] \in {")", "U+FF09"}
        /\ a # <<>>
        /\ a[Len(a)] = "%"
        /\ d >= 1
        /\ c # <<>>
        /\ c[Len(c)] \in {"(", "U+FF08"}

\* the two fullmatch tests for a marker with no content
is_orphan_marker(body) ==
    LET n == RunLen(body, 0, WS)
        d == RunLen(body, n, Digits)
    IN  \/ /\ n < Len(body)
           /\ body[n + 1] \in {"-", "*", "+"}
           /\ RunLen(body, n + 1, WS) = Len(body)
        \/ /\ d > n
           /\ d < Len(body)
           /\ body[d + 1] \in {".", ")"}
           /\ RunLen(body, d + 1, WS) = Len(body)

(***************************************************************************)
(* Dictionaries keyed by the indentation text (ol_counters, last_list_type,*)
(* ol_marker_width) are functions whose domain is the set of present keys. *)
(***************************************************************************)
EmptyDict == <<>>

DictSet(d, k, v) == [x \in (DOMAIN d) \cup {k} |-> IF x = k THEN v ELSE d[x]]

DictPop(d, k) == [x \in (DOMAIN d) \ {k} |-> d[x]]

\* d.get(k) = v
DictHas(d, k, v) == k \in DOMAIN d /\ d[k] = v

\* prev_list is None
NoPrevList == [kind |-> "none", prefix |-> <<>>, indent |-> 0, rest |-> <<>>]

Last(s) == s[Len(s)]

(***************************************************************************)
(* Pass 1, the rewriting of one line body.                                 *)
(***************************************************************************)
\* MD004 / MD030: "*" and "+" become "-", one space after the marker
NormalizeUlMarkerKeep(body) == body

NormalizeUlMarker(body) ==
    LET b1 == IF ReUlMarkerEnd(body) >= 0
              THEN Slice(body, 0, IndentLen(body)) \o <<"-", " ">>
                   \o LStrip(From(body, ReUlMarkerEnd(body)))
              ELSE body
    IN  IF ReUlDashEnd(b1) >= 0
        THEN Slice(b1, 0, IndentLen(b1)) \o <<"-", " ">>
             \o LStrip(From(b1, ReUlDashEnd(b1)))
        ELSE b1

\* MD005 / MD007 for an ordered marker: the normalized indentation width
OlNormIndentKeep(indent_len) == indent_len

OlNormIndent(indent_len) ==
    IF indent_len <= 3 THEN 0 ELSE Max(0, indent_len - 2)

NormalizeOlIndent(body) ==
    Spaces(OlNormIndent(IndentLen(body)))
    \o Slice(body, IndentLen(body), OlNumEnd(body) + 1) \o <<" ">>
    \o LStrip(From(body, ReOlMarkerEnd(body)))

\* the nearest ordered-list ancestor in the stack, searched from the top:
\* its position in the stack, 0 when there is none
RECURSIVE NearestOlAncestor(_, _, _, _)
NearestOlAncestor(stack, k, types, widths) ==
    IF k = 0 THEN 0
    ELSE IF DictHas(types, Spaces(stack[k]), "ol") /\ Spaces(stack[k]) \in DOMAIN widths
         THEN k
         ELSE NearestOlAncestor(stack, k - 1, types, widths)

\* the percent test applied to the previous list item's text
PrevHasPercent(prev) == ends_with_percent(prev.rest) \/ looks_like_percent_item(prev.rest)

\* MD005 / MD007 for an unordered "-" marker.  Every rewriting takes the
\* item text from the body as rewritten so far, at the end position e of
\* the marker in the body as it was matched (body[m_ul_indent.end():]).
NormalizeUlIndent(body, quote_prefix, prev, stack, types, widths) ==
    LET e == ReUlDashEnd(body)
        rest == Strip(From(body, e))
        len0 == IndentLen(body)
        promote == /\ len0 = 2
                   /\ (ends_with_percent(rest) \/ looks_like_percent_item(rest))
                   /\ prev.kind # "none"
                   /\ prev.prefix = quote_prefix
                   /\ prev.kind = "ul"
                   /\ prev.indent = 2
                   /\ ~PrevHasPercent(prev)
        b1 == IF promote THEN <<"-", " ">> \o LStrip(From(body, e)) ELSE body
        len1 == IF promote THEN 0 ELSE len0
        b2 == IF len1 <= 3 /\ looks_like_percent_item(rest)
              THEN <<"-", " ">> \o LStrip(From(b1, e)) ELSE b1
        a == NearestOlAncestor(stack, Len(stack), types, widths)
        nested == a > 0 /\ len1 > stack[a]
        desired == stack[a] + widths[Spaces(stack[a])]
        b3 == IF nested /\ len1 # desired
              THEN Spaces(desired) \o <<"-", " ">> \o LStrip(From(b2, e)) ELSE b2
        len3 == IF nested THEN desired ELSE len1
    IN  IF ~nested /\ len3 >= 4
        THEN Spaces(Max(0, len3 - 2)) \o <<"-", " ">> \o LStrip(From(b3, e))
        ELSE b3

\* lines 481-548: indentation of a list marker
NormalizeIndent(body, quote_prefix, prev, stack, types, widths) ==
    IF ReOlMarkerEnd(body) >= 0 THEN NormalizeOlIndent(body)
    ELSE IF ReUlDashEnd(body) >= 0
         THEN NormalizeUlIndent(body, quote_prefix, prev, stack, types, widths)
         ELSE body

\* lines 449-460: the inline rewriters, applied to the body of a line
RewriteInline(quote_prefix, body, last_level) ==
    IF quote_prefix = <<>> THEN PromoteBold(WrapBareUrls(body), last_level)
    ELSE WrapBareUrls(body)

\* line 426: the line as pass 1 reads it
RawLine(raw_src, inside_code) ==
    IF inside_code \/ is_code_fence(raw_src) THEN raw_src ELSE ExpandTabs(raw_src)

(***************************************************************************)
(* Pass 1, list state.                                                     *)
(***************************************************************************)
\* while list_indent_stack and indent_len < list_indent_stack[-1]: pop()
RECURSIVE PopDeeper(_, _)
PopDeeper(stack, indent_len) ==
    IF stack # <<>> /\ indent_len < Last(stack)
    THEN PopDeeper(Slice(stack, 0, Len(stack) - 1), indent_len)
    ELSE stack

\* lines 567-582: the body (dedented when it opens a list) and the stack
UpdateStackNoPop(body, stack) ==
    [body |-> body, stack |-> Append(stack, leading_ws_len(body))]

UpdateStack(body, stack) ==
    IF ReListMatch(body)
    THEN LET dedent == leading_ws_len(body) > 0 /\ stack = <<>>
             b == IF dedent THEN From(body, leading_ws_len(body)) ELSE body
             indent_len == IF dedent THEN 0 ELSE leading_ws_len(body)
             popped == PopDeeper(stack, indent_len)
         IN  [body  |-> b,
              stack |-> IF popped = <<>> \/ indent_len > Last(popped)
                        THEN Append(popped, indent_len) ELSE popped]
    ELSE [body  |-> body,
          stack |-> IF stack # <<>> /\ leading_ws_len(body) < Last(stack) + 2
                    THEN <<>> ELSE stack]

\* lines 591-594: the number given to an ordered item
NextCounterAlwaysOne(types, counters, indent) == 1

NextCounter(types, counters, indent) ==
    IF ~DictHas(types, indent, "ol") THEN 1
    ELSE (IF indent \in DOMAIN counters THEN counters[indent] ELSE 0) + 1

\* lines 584-605: renumbering and the three dictionaries
Renumber(body, counters, types, widths) ==
    IF ReOlMarkerEnd(body) >= 0
    THEN LET indent == Slice(body, 0, IndentLen(body))
             n == NextCounter(types, counters, indent)
         IN  [body     |-> indent \o ToDigits(n) \o <<body[OlNumEnd(body) + 1], " ">>
                           \o LStrip(From(body, ReOlMarkerEnd(body))),
              counters |-> DictSet(counters, indent, n),
              types    |-> DictSet(types, indent, "ol"),
              widths   |-> DictSet(widths, indent, OlNumEnd(body) - IndentLen(body) + 2)]
    ELSE IF ReListMatch(body)
    THEN LET indent == Slice(body, 0, leading_ws_len(body))
         IN  [body     |-> body,
              counters |-> DictPop(counters, indent),
              types    |-> DictSet(types, indent, "ul"),
              widths   |-> DictPop(widths, indent)]
    ELSE [body |-> body, counters |-> EmptyDict, types |-> EmptyDict,
          widths |-> EmptyDict]

\* lines 612-620: what is remembered about an emitted list item
PrevListOf(quote_prefix, body) ==
    IF ReOlMarkerEnd(body) >= 0
    THEN [kind |-> "ol", prefix |-> quote_prefix, indent |-> IndentLen(body),
          rest |-> Strip(From(body, ReOlMarkerEnd(body)))]
    ELSE IF ReUlDashEnd(body) >= 0
    THEN [kind |-> "ul", prefix |-> quote_prefix, indent |-> IndentLen(body),
          rest |-> Strip(From(body, ReUlDashEnd(body)))]
    ELSE NoPrevList

\* quote_prefix.rstrip() if quote_prefix else ""
QuoteBlank(quote_prefix) == IF quote_prefix # <<>> THEN RStrip(quote_prefix) ELSE <<>>

\* lines 558-562: the lines emitted for a heading
HeadingLines(emitted, heading, next_is_text) ==
    (IF emitted # <<>> /\ ~is_blankish(Last(emitted)) THEN <<<<>>>> ELSE <<>>)
    \o <<strip_heading_trailing_punct(heading)>>
    \o (IF next_is_text THEN <<<<>>>> ELSE <<>>)

\* lines 608-611: the lines emitted for a list item
ListLines(emitted, quote_prefix, body) ==
    (IF /\ emitted # <<>>
        /\ ~is_blankish(Last(emitted))
        /\ ~is_heading(Last(emitted))
        /\ ~is_list(Last(emitted))
     THEN <<QuoteBlank(quote_prefix)>> ELSE <<>>)
    \o <<RStrip(quote_prefix \o body)>>

(***************************************************************************)
(* The state of one call of _normalize_markdownlint, and of the caller     *)
(* that feeds the result back in (round 2).                                *)
(***************************************************************************)
VARIABLES
    md,                  \* the argument of the current call
    src,                 \* its right-stripped lines
    pc,                  \* "start", "pass1" .. "pass4", "done"; "idle": not called
    i,                   \* index of the loop of the current pass (0-based)
    out,                 \* pass 1 output
    in_code,
    list_indent_stack,
    ol_counters,
    last_list_type,
    ol_marker_width,
    last_heading_level,
    prev_list,
    out2,                \* pass 2 output
    collapsed,           \* pass 3 output
    blank_run,
    final_lines,         \* pass 4 output
    heading_counts,
    have_h1,
    result,              \* the returned text
    round,               \* 1: first call, 2: the call on the first result
    first_md,            \* the argument of the first call
    first_result         \* the result of the first call

\* README.md, written by convert_one and by scripts/readme_warning.py, and
\* the runs of the two scripts on it
VARIABLES
    readme_exists,       \* path.exists()
    readme,              \* the text of README.md, empty when there is no file
    original,            \* the text of README.md before the first run
    previous,            \* the text of README.md before the last run
    runs                 \* the runs so far: [op |-> "set", "clear" or
                         \* "convert", message]

vars == <<md, src, pc, i, out, in_code, list_indent_stack, ol_counters,
          last_list_type, ol_marker_width, last_heading_level, prev_list,
          out2, collapsed, blank_run, final_lines, heading_counts, have_h1,
          result, round, first_md, first_result,
          readme_exists, readme, original, previous, runs>>

listState == <<list_indent_stack, ol_counters, last_list_type, ol_marker_width>>

pass1State == <<out, in_code, list_indent_stack, ol_counters, last_list_type,
                ol_marker_width, last_heading_level, prev_list>>

laterState == <<out2, collapsed, blank_run, final_lines, heading_counts, have_h1>>

callerState == <<md, round, first_md, first_result>>

warningState == <<readme_exists, readme, original, previous, runs>>

\* readme_warning.py has not run and there is no README.md
NoWarningRun ==
    /\ readme_exists = FALSE
    /\ readme = <<>>
    /\ original = <<>>
    /\ previous = <<>>
    /\ runs = <<>>

\* the normalizer before the call on the document doc, at the position at
NormalizerAt(doc, at) ==
    /\ md = doc
    /\ src = <<>>
    /\ pc = at
    /\ i = 0
    /\ out = <<>>
    /\ in_code = FALSE
    /\ list_indent_stack = <<>>
    /\ ol_counters = EmptyDict
    /\ last_list_type = EmptyDict
    /\ ol_marker_width = EmptyDict
    /\ last_heading_level = 0
    /\ prev_list = NoPrevList
    /\ out2 = <<>>
    /\ collapsed = <<>>
    /\ blank_run = 0
    /\ final_lines = <<>>
    /\ heading_counts = EmptyDict
    /\ have_h1 = FALSE
    /\ result = <<>>
    /\ round = 1
    /\ first_md = doc
    /\ first_result = <<>>

\* the state before the call on the document doc
InitWith(doc) == NormalizerAt(doc, "start") /\ NoWarningRun

\* lines 365-366 and 410-421
SrcLines(text) ==
    LET pieces == SplitLines(NormalizeNewlines(text))
    IN  [k \in 1..Len(pieces) |-> RStrip(pieces[k])]

Begin ==
    /\ pc = "start"
    /\ src' = SrcLines(md)
    /\ pc' = "pass1"
    /\ i' = 0
    /\ out' = <<>>
    /\ in_code' = FALSE
    /\ list_indent_stack' = <<>>
    /\ ol_counters' = EmptyDict
    /\ last_list_type' = EmptyDict
    /\ ol_marker_width' = EmptyDict
    /\ last_heading_level' = 0
    /\ prev_list' = NoPrevList
    /\ UNCHANGED <<laterState, result, callerState>>
    /\ UNCHANGED warningState

\* lines 422-626: one iteration of the main loop.  The values computed on
\* the way (raw, the split line, the body after each rewriting) are bound
\* once each.
Pass1Step ==
    /\ pc = "pass1"
    /\ i < Len(src)
    /\ \E raw \in {RawLine(src[i + 1], in_code)} :
       \E sp \in {split_blockquote_prefix(raw)} :
       \E inl \in {RewriteInline(sp.prefix, sp.body, last_heading_level)} :
       \E mk \in {NormalizeUlMarker(inl)} :
       \E body \in {NormalizeIndent(mk, sp.prefix, prev_list, list_indent_stack,
                                    last_list_type, ol_marker_width)} :
       \E st \in {UpdateStack(body, list_indent_stack)} :
       \E rn \in {Renumber(st.body, ol_counters, last_list_type, ol_marker_width)} :
           IF is_code_fence(src[i + 1])
           THEN /\ in_code' = ~in_code
                /\ out' = Append(out, src[i + 1])
                /\ UNCHANGED <<listState, last_heading_level, prev_list>>
           ELSE IF in_code
           THEN /\ out' = Append(out, src[i + 1])
                /\ UNCHANGED <<in_code, listState, last_heading_level, prev_list>>
           ELSE IF is_blank(raw)
           THEN /\ out' = Append(out, <<>>)
                /\ prev_list' = NoPrevList
                /\ UNCHANGED <<in_code, listState, last_heading_level>>
           ELSE IF is_orphan_marker(mk)
           THEN /\ out' = Append(out, QuoteBlank(sp.prefix))
                /\ UNCHANGED <<in_code, listState, last_heading_level, prev_list>>
           ELSE IF sp.prefix = <<>> /\ ReHeadingEnd(Strip(body)) >= 0
           THEN /\ list_indent_stack' = <<>>
                /\ ol_counters' = EmptyDict
                /\ last_list_type' = EmptyDict
                /\ last_heading_level' = RunLen(Strip(body), 0, {"#"})
                /\ out' = out \o HeadingLines(out, Strip(body),
                                   i + 1 < Len(src) /\ ~is_blank(src[i + 2]))
                /\ UNCHANGED <<in_code, ol_marker_width, prev_list>>
           ELSE /\ list_indent_stack' = st.stack
                /\ ol_counters' = rn.counters
                /\ last_list_type' = rn.types
                /\ ol_marker_width' = rn.widths
                /\ IF ReListMatch(rn.body)
                   THEN /\ out' = out \o ListLines(out, sp.prefix, rn.body)
                        /\ prev_list' = PrevListOf(sp.prefix, rn.body)
                   ELSE /\ out' = Append(out, RStrip(sp.prefix \o rn.body))
                        /\ prev_list' = NoPrevList
                /\ UNCHANGED <<in_code, last_heading_level>>
    /\ i' = i + 1
    /\ UNCHANGED <<src, pc, laterState, result, callerState>>
    /\ UNCHANGED warningState

\* lines 629-631
StartPass2 ==
    /\ pc = "pass1"
    /\ i >= Len(src)
    /\ pc' = "pass2"
    /\ out2' = <<>>
    /\ in_code' = FALSE
    /\ i' = 0
    /\ UNCHANGED <<src, out, listState, last_heading_level, prev_list, collapsed,
                   blank_run, final_lines, heading_counts, have_h1, result,
                   callerState>>
    /\ UNCHANGED warningState

(***************************************************************************)
(* Pass 2: blank line after list blocks.                                   *)
(***************************************************************************)
\* j = i + 1; while j < len(out) and is_blankish(out[j]): j += 1
RECURSIVE SkipBlankish(_, _)
SkipBlankish(lines, j) ==
    IF j < Len(lines) /\ is_blankish(lines[j + 1]) THEN SkipBlankish(lines, j + 1)
    ELSE j

\* lines 645-652: is a blank line appended after the list item out[k]?
BlankAfterList(lines, k) ==
    LET j == SkipBlankish(lines, k + 1)
    IN  /\ is_list(lines[k + 1])
        /\ j < Len(lines)
        /\ ~is_list(lines[j + 1])
        /\ k + 1 < Len(lines)
        /\ ~is_blankish(lines[k + 2])

Pass2Step ==
    /\ pc = "pass2"
    /\ i < Len(out)
    /\ LET ln == out[i + 1]
       IN  IF is_code_fence(ln)
           THEN /\ in_code' = ~in_code
                /\ out2' = Append(out2, ln)
           ELSE IF in_code
           THEN /\ out2' = Append(out2, ln)
                /\ UNCHANGED in_code
           ELSE /\ out2' = IF BlankAfterList(out, i)
                           THEN out2 \o <<ln, QuoteBlank(split_blockquote_prefix(ln).prefix)>>
                           ELSE Append(out2, ln)
                /\ UNCHANGED in_code
    /\ i' = i + 1
    /\ UNCHANGED <<src, pc, out, listState, last_heading_level, prev_list,
                   collapsed, blank_run, final_lines, heading_counts, have_h1,
                   result, callerState>>
    /\ UNCHANGED warningState

\* lines 656-657
StartPass3 ==
    /\ pc = "pass2"
    /\ i >= Len(out)
    /\ pc' = "pass3"
    /\ collapsed' = <<>>
    /\ blank_run' = 0
    /\ i' = 0
    /\ UNCHANGED <<src, pass1State, out2, final_lines, heading_counts, have_h1,
                   result, callerState>>
    /\ UNCHANGED warningState

(***************************************************************************)
(* Pass 3: collapse runs of blank lines, trim the ends.                    *)
(***************************************************************************)
\* line 661: is this blank line of a run dropped?
DropBlankNever(run) == FALSE

DropBlank(run) == run > 1

\* line 664: the line kept for the first blank line of a run
KeptBlank(ln) == IF StartsWith(Strip(ln), <<">">>) THEN ln ELSE <<>>

Pass3Step ==
    /\ pc = "pass3"
    /\ i < Len(out2)
    /\ LET ln == out2[i + 1]
       IN  IF is_blankish(ln)
           THEN /\ blank_run' = blank_run + 1
                /\ collapsed' = IF DropBlank(blank_run + 1) THEN collapsed
                                ELSE Append(collapsed, KeptBlank(ln))
           ELSE /\ blank_run' = 0
                /\ collapsed' = Append(collapsed, ln)
    /\ i' = i + 1
    /\ UNCHANGED <<src, pc, pass1State, out2, final_lines, heading_counts,
                   have_h1, result, callerState>>
    /\ UNCHANGED warningState

\* while collapsed and is_blankish(collapsed[0]): collapsed.pop(0)
RECURSIVE TrimLeading(_)
TrimLeading(lines) ==
    IF lines # <<>> /\ is_blankish(lines[1]) THEN TrimLeading(Tail(lines))
    ELSE lines

\* while collapsed and is_blankish(collapsed[-1]): collapsed.pop()
RECURSIVE TrimTrailing(_)
TrimTrailing(lines) ==
    IF lines # <<>> /\ is_blankish(Last(lines))
    THEN TrimTrailing(Slice(lines, 0, Len(lines) - 1))
    ELSE lines

\* lines 669-678
TrimAndStartPass4 ==
    /\ pc = "pass3"
    /\ i >= Len(out2)
    /\ collapsed' = TrimTrailing(TrimLeading(collapsed))
    /\ pc' = "pass4"
    /\ final_lines' = <<>>
    /\ heading_counts' = EmptyDict
    /\ have_h1' = FALSE
    /\ in_code' = FALSE
    /\ i' = 0
    /\ UNCHANGED <<src, out, listState, last_heading_level, prev_list, out2,
                   blank_run, result, callerState>>
    /\ UNCHANGED warningState

(***************************************************************************)
(* Pass 4: heading post-processing.                                        *)
(***************************************************************************)
\* lines 699-703: the level a heading is emitted with
FinalLevelKeep(level, seen_h1) == level

FinalLevel(level, seen_h1) == IF level = 1 /\ seen_h1 THEN 2 ELSE level

\* lines 693-697: the text of a heading after the punctuation is stripped
HeadingText(s) ==
    LET s2 == strip_heading_trailing_punct(s)
    IN  IF ReHeadingEnd(s2) >= 0 THEN Strip(From(s2, ReHeadingEnd(s2)))
        ELSE Strip(From(s, ReHeadingEnd(s)))

\* lines 695-696
HeadingLevel(s) ==
    LET s2 == strip_heading_trailing_punct(s)
    IN  IF ReHeadingEnd(s2) >= 0 THEN RunLen(s2, 0, {"#"}) ELSE RunLen(s, 0, {"#"})

\* lines 705-707
CountOf(counts, text) == (IF text \in DOMAIN counts THEN counts[text] ELSE 0) + 1

SuffixedText(text, count) ==
    IF count > 1 THEN text \o <<"U+FF08">> \o ToDigits(count) \o <<"U+FF09">>
    ELSE text

Pass4Step ==
    /\ pc = "pass4"
    /\ i < Len(collapsed)
    /\ LET ln == collapsed[i + 1]
           sp == split_blockquote_prefix(ln)
           s == Strip(sp.body)
           text == HeadingText(s)
       IN  IF is_code_fence(ln)
           THEN /\ in_code' = ~in_code
                /\ final_lines' = Append(final_lines, ln)
                /\ UNCHANGED <<heading_counts, have_h1>>
           ELSE IF in_code
           THEN /\ final_lines' = Append(final_lines, ln)
                /\ UNCHANGED <<in_code, heading_counts, have_h1>>
           ELSE IF ReHeadingEnd(s) >= 0 /\ sp.prefix = <<>>
           THEN /\ have_h1' = (have_h1 \/ HeadingLevel(s) = 1)
                /\ heading_counts' = DictSet(heading_counts, text,
                                             CountOf(heading_counts, text))
                /\ final_lines' = Append(final_lines,
                       Hashes(FinalLevel(HeadingLevel(s), have_h1)) \o <<" ">>
                       \o SuffixedText(text, CountOf(heading_counts, text)))
                /\ UNCHANGED in_code
           ELSE /\ final_lines' = Append(final_lines, ln)
                /\ UNCHANGED <<in_code, heading_counts, have_h1>>
    /\ i' = i + 1
    /\ UNCHANGED <<src, pc, out, listState, last_heading_level, prev_list, out2,
                   collapsed, blank_run, result, callerState>>
    /\ UNCHANGED warningState

\* line 713: "\n".join(final_lines).rstrip() + "\n"
FinalTextNoNewline(lines) == RStrip(JoinLines(lines))

FinalText(lines) == RStrip(JoinLines(lines)) \o <<"\n">>

\* convert_one, lines 1065-1066: output_path.write_text(md)
WriteReadme(text) ==
    /\ readme' = text
    /\ readme_exists' = TRUE

\* line 713; the text returned by the first call is the one convert_one
\* writes to README.md
Return ==
    /\ pc = "pass4"
    /\ i >= Len(collapsed)
    /\ result' = FinalText(final_lines)
    /\ pc' = "done"
    /\ IF round = 1
       THEN WriteReadme(FinalText(final_lines))
       ELSE UNCHANGED <<readme, readme_exists>>
    /\ UNCHANGED <<original, previous, runs>>
    /\ UNCHANGED <<src, i, pass1State, laterState, callerState>>

\* the caller normalizes the result once more
Again ==
    /\ pc = "done"
    /\ round = 1
    /\ md' = result
    /\ first_result' = result
    /\ round' = 2
    /\ pc' = "start"
    /\ UNCHANGED <<src, i, pass1State, laterState, result, first_md>>
    /\ UNCHANGED warningState

Next ==
    \/ Begin
    \/ Pass1Step
    \/ StartPass2
    \/ Pass2Step
    \/ StartPass3
    \/ Pass3Step
    \/ TrimAndStartPass4
    \/ Pass4Step
    \/ Return
    \/ Again

Done == pc = "done"

(***************************************************************************)
(* Input documents.  A specification draws the argument of the first call  *)
(* from the documents of at most MaxLines lines (MaxListLines for the list *)
(* documents) over one vocabulary of lines.                                *)
(***************************************************************************)
MaxLines == 3

MaxListLines == 4

Docs(vocab, n) == UNION {[1..k -> vocab] : k \in 0..n}

InitOver(vocab, n) == \E d \in Docs(vocab, n) : InitWith(JoinLines(d))

HeadingVocab ==
    { <<"#", " ", "A">>,
      <<"#", " ", "A", "U+FF08", "2", "U+FF09">>,
      <<"#", " ", "A", ":", " ", ":", " ", ":">>,
      <<">", " ", "#", " ", "A">>,
      <<"*", "*", "A", "*", "*">>,
      <<"#", "#", " ", "A">>,
      <<"x">>,
      <<">">>,
      <<>>,
      FenceMarker }

TextVocab ==
    { <<>>,
      <<">">>,
      <<"x", " ", " ">>,
      <<"#", " ", "A">>,
      <<"-", " ", "a">>,
      <<">", " ", "-", " ", "a">>,
      <<"\r">>,
      <<"U+3000">>,
      FenceMarker }

UrlVocab ==
    { <<"x", " ">> \o HttpScheme \o <<"a">>,
      HttpScheme,
      <<"(">> \o HttpScheme \o <<"a">>,
      <<"#", " ">> \o HttpScheme,
      HttpsScheme \o <<"a", "?", "u", "=">> \o HttpScheme \o <<"b">>,
      <<"<">> \o HttpScheme \o <<"a", ">">>,
      <<">", " ">> \o HttpScheme \o <<"a">>,
      <<"1", ".", " ", "x">>,
      <<" ", " ", "-", " ", "x">> \o HttpScheme \o <<"a", " ", "(", "5", "%", ")">>,
      FenceMarker }

ListVocab ==
    { <<"1", ".", " ", "a">>,
      <<" ", " ", " ", " ", "1", ".", " ", "a">>,
      <<"-", " ", "a">>,
      <<" ", " ", " ", "x">>,
      <<>> }

InitHeadings == InitOver(HeadingVocab, MaxLines)

InitText == InitOver(TextVocab, MaxLines)

InitUrls == InitOver(UrlVocab, MaxLines)

InitLists == InitOver(ListVocab, MaxListLines)

Init == InitHeadings

Spec == Init /\ [][Next]_vars

SpecText == InitText /\ [][Next]_vars

SpecUrls == InitUrls /\ [][Next]_vars

SpecLists == InitLists /\ [][Next]_vars

(***************************************************************************)
(* Reading a returned text.                                                *)
(***************************************************************************)
\* the lines of a text, the piece after a final newline not counted
LinesOf(text) ==
    IF text = <<>> THEN <<>>
    ELSE IF Last(text) = "\n"
         THEN IF Len(text) = 1 THEN <<>> ELSE SplitLines(Slice(text, 0, Len(text) - 1))
         ELSE SplitLines(text)

ResultLines == LinesOf(result)

\* the number of fence lines among the first k lines is odd
FenceOpenAfter(lines, k) ==
    Cardinality({j \in 1..k : is_code_fence(lines[j])}) % 2 = 1

\* line k is a fence line or lies inside fenced code
Verbatim(lines, k) == is_code_fence(lines[k]) \/ FenceOpenAfter(lines, k - 1)

\* line k lies strictly inside fenced code
InsideFence(lines, k) == ~is_code_fence(lines[k]) /\ FenceOpenAfter(lines, k - 1)

\* line k is a heading outside blockquotes and fenced code
DocHeading(lines, k) ==
    /\ ~Verbatim(lines, k)
    /\ QuotePrefixLen(lines[k]) = 0
    /\ ReHeadingEnd(lines[k]) >= 0

HeadingTextOf(ln) == From(ln, ReHeadingEnd(ln))

DocHeadings(lines) == {k \in 1..Len(lines) : DocHeading(lines, k)}

TopHeadings(lines) == {k \in DocHeadings(lines) : RunLen(lines[k], 0, {"#"}) = 1}

\* the lines strictly inside fenced code, in order
RECURSIVE FencedFrom(_, _)
FencedFrom(lines, k) ==
    IF k > Len(lines) THEN <<>>
    ELSE (IF InsideFence(lines, k) THEN <<lines[k]>> ELSE <<>>)
         \o FencedFrom(lines, k + 1)

FencedLines(lines) == FencedFrom(lines, 1)

(***************************************************************************)
(* C1. Idempotence: normalizing the result of a call returns that result   *)
(* unchanged, normalize(normalize(x)) = normalize(x).                      *)
(***************************************************************************)
C1_Idempotent == (Done /\ round = 2) => result = first_result

(***************************************************************************)
(* C2. No duplicate headings: in the returned text no two heading lines    *)
(* outside blockquotes and fenced code have the same heading text.         *)
(***************************************************************************)
C2_NoDuplicateHeading ==
    (Done /\ round = 1) =>
        \A j, k \in DocHeadings(ResultLines) :
            j # k => HeadingTextOf(ResultLines[j]) # HeadingTextOf(ResultLines[k])

(***************************************************************************)
(* C3. Single H1: the returned text has at most one level-1 heading        *)
(* outside blockquotes and fenced code; pass 4 keeps level 1 for the first *)
(* level-1 heading, emits every later one at level 2, and leaves a         *)
(* blockquoted line as it is.                                              *)
(***************************************************************************)
C3_SingleH1 ==
    Done =>
        /\ Cardinality(TopHeadings(ResultLines)) <= 1
        /\ Len(final_lines) = Len(collapsed)
        /\ \A k \in 1..Len(collapsed) :
            /\ k \in TopHeadings(collapsed) =>
                 RunLen(final_lines[k], 0, {"#"}) =
                     IF \E j \in TopHeadings(collapsed) : j < k THEN 2 ELSE 1
            /\ QuotePrefixLen(collapsed[k]) > 0 => final_lines[k] = collapsed[k]

\* a first call on a document with two level-1 headings and a quoted one
C3_Witness ==
    /\ Done
    /\ round = 1
    /\ Cardinality(TopHeadings(collapsed)) >= 2
    /\ \E k \in 1..Len(collapsed) :
           QuotePrefixLen(collapsed[k]) > 0 /\ is_heading(collapsed[k])
    /\ Cardinality(TopHeadings(ResultLines)) = 1

(***************************************************************************)
(* C4. Code-fence preservation: the lines of the argument that lie inside  *)
(* fenced code are the lines of the result that lie inside fenced code,    *)
(* the same texts in the same order and number.                            *)
(***************************************************************************)
C4_FencePreserved ==
    (Done /\ round = 1) =>
        FencedLines(LinesOf(NormalizeNewlines(md))) = FencedLines(ResultLines)

(***************************************************************************)
(* C5. Ordered numbering: in the returned text an ordered item that starts *)
(* a run of ordered items of one indentation carries the number 1 and      *)
(* every other item of the run carries the number of the item before it in *)
(* the run plus one.  Blank lines, deeper list items and continuation      *)
(* lines do not end a run; a shallower list item or any other line does.   *)
(***************************************************************************)
\* int(c) for one decimal digit
DigitValue(c) ==
    CHOOSE v \in 0..9 : \E r \in 1..Len(DigitRows) : DigitRows[r][v + 1] = c

RECURSIVE ParseNat(_)
ParseNat(ds) ==
    IF ds = <<>> THEN 0
    ELSE 10 * ParseNat(Slice(ds, 0, Len(ds) - 1))
         + DigitValue(Last(ds))

OrderedItem(lines, k) ==
    ~Verbatim(lines, k) /\ ReOlMarkerEnd(strip_blockquote(lines[k])) >= 0

ItemIndent(ln) == IndentLen(strip_blockquote(ln))

ItemNumber(ln) ==
    ParseNat(Slice(strip_blockquote(ln), ItemIndent(ln), OlNumEnd(strip_blockquote(ln))))

\* the line before line k that the run of an item of indentation ind
\* continues from: 0 when the run starts at line k
RECURSIVE RunPredecessor(_, _, _)
RunPredecessor(lines, j, ind) ==
    IF j = 0 THEN 0
    ELSE IF Verbatim(lines, j) THEN 0
    ELSE IF lines[j] = <<>> THEN RunPredecessor(lines, j - 1, ind)
    ELSE IF is_list(lines[j])
         THEN IF ItemIndent(lines[j]) > ind THEN RunPredecessor(lines, j - 1, ind)
              ELSE IF OrderedItem(lines, j) /\ ItemIndent(lines[j]) = ind THEN j
              ELSE 0
    ELSE IF leading_ws_len(strip_blockquote(lines[j])) >= ind + 2
         THEN RunPredecessor(lines, j - 1, ind)
         ELSE 0

ExpectedNumber(lines, k) ==
    LET j == RunPredecessor(lines, k - 1, ItemIndent(lines[k]))
    IN  IF j = 0 THEN 1 ELSE ItemNumber(lines[j]) + 1

C5_OrderedNumbering ==
    (Done /\ round = 1) =>
        \A k \in 1..Len(ResultLines) :
            OrderedItem(ResultLines, k) =>
                ItemNumber(ResultLines[k]) = ExpectedNumber(ResultLines, k)

(***************************************************************************)
(* C6. URL wrapping: in every returned line outside fenced code every      *)
(* occurrence of "http://" or "https://" is immediately preceded by "<" or *)
(* "(", also a scheme inside a URL and a scheme with nothing after it.     *)
(***************************************************************************)
\* the 0-based positions of ln at which a scheme starts
SchemeStarts(ln) ==
    {p \in 0..(Len(ln) - 1) :
        \/ Slice(ln, p, Min(Len(ln), p + 7)) = HttpScheme
        \/ Slice(ln, p, Min(Len(ln), p + 8)) = HttpsScheme}

PrecededByBracket(ln, p) == p > 0 /\ ln[p] \in {"<", "("}

C6_EveryUrlWrapped ==
    (Done /\ round = 1) =>
        \A k \in 1..Len(ResultLines) :
            ~Verbatim(ResultLines, k) =>
                \A p \in SchemeStarts(ResultLines[k]) :
                    PrecededByBracket(ResultLines[k], p)

(***************************************************************************)
(* C7. No double blank: the returned text has no two consecutive blank     *)
(* lines, a line of only blockquote markers counting as blank, and neither *)
(* its first nor its last line is blank.                                   *)
(***************************************************************************)
C7_NoDoubleBlank ==
    Done =>
        /\ \A k \in 1..(Len(ResultLines) - 1) :
               ~(is_blankish(ResultLines[k]) /\ is_blankish(ResultLines[k + 1]))
        /\ ResultLines # <<>> =>
               ~is_blankish(ResultLines[1]) /\ ~is_blankish(Last(ResultLines))

\* a first call whose pass 2 output has two blank lines in a row between
\* two kept lines, one of them a line of blockquote markers
C7_Witness ==
    /\ Done
    /\ round = 1
    /\ \E k \in 1..(Len(out2) - 1) :
           /\ is_blankish(out2[k])
           /\ is_blankish(out2[k + 1])
           /\ <<">">> \in {out2[k], out2[k + 1]}
    /\ \E k \in 1..Len(ResultLines) : is_blankish(ResultLines[k])

(***************************************************************************)
(* C8. Totality and termination: in each pass the line index advances by   *)
(* one at every step and never passes the end of the lines of that pass,   *)
(* the passes follow one another in order, so that every step of a call    *)
(* lowers the number of steps left and the call returns; the returned text *)
(* ends with exactly one newline, and for the empty document it is that    *)
(* newline alone.                                                          *)
(***************************************************************************)
PassLines ==
    CASE pc = "pass1" -> src
      [] pc = "pass2" -> out
      [] pc = "pass3" -> out2
      [] pc = "pass4" -> collapsed
      [] OTHER -> <<>>

PassNumber(p) ==
    CASE p = "start" -> 0
      [] p = "pass1" -> 1
      [] p = "pass2" -> 2
      [] p = "pass3" -> 3
      [] p = "pass4" -> 4
      [] OTHER -> 5

EndsWithOneNewline(text) ==
    /\ text # <<>>
    /\ Last(text) = "\n"
    /\ Len(text) >= 2 => text[Len(text) - 1] # "\n"

C8_Total ==
    /\ [](Done => EndsWithOneNewline(result) /\ (md = <<>> => result = <<"\n">>))
    /\ [](pc \in {"pass1", "pass2", "pass3", "pass4"} => i <= Len(PassLines))
    /\ [][/\ (pc' = pc => i' = i + 1)
          /\ (pc' # pc /\ round' = round => PassNumber(pc') = PassNumber(pc) + 1)]_vars

\* a first call returned on a document whose code fence was never closed
C8_Witness ==
    /\ Done
    /\ round = 1
    /\ in_code
    /\ Len(src) >= 2
    /\ EndsWithOneNewline(result)

(***************************************************************************)
(* C9. No trailing punctuation: in the returned text no heading line       *)
(* outside blockquotes and fenced code ends with a punctuation mark of the *)
(* stripped set.                                                           *)
(***************************************************************************)
C9_NoTrailingPunct ==
    (Done /\ round = 1) =>
        \A k \in DocHeadings(ResultLines) : Last(ResultLines[k]) \notin HeadingPunct

(***************************************************************************)
(* C10. Blank lines around headings: in the returned text every heading    *)
(* line outside blockquotes and fenced code is the first line or follows a *)
(* blank line, and is the last line or is followed by a blank line.        *)
(***************************************************************************)
C10_BlankAroundHeadings ==
    (Done /\ round = 1) =>
        \A k \in DocHeadings(ResultLines) :
            /\ k = 1 \/ ResultLines[k - 1] = <<>>
            /\ k = Len(ResultLines) \/ ResultLines[k + 1] = <<>>

(***************************************************************************)
(* Reading the list items of a returned text.                              *)
(***************************************************************************)
\* line k is a list item outside fenced code
ListItem(lines, k) == ~Verbatim(lines, k) /\ is_list(lines[k])

\* line k is a blank or quote-blank line outside fenced code
BlankLine(lines, k) == ~Verbatim(lines, k) /\ is_blankish(lines[k])

\* the number of blockquote markers in front of a line
QuoteDepth(ln) ==
    Cardinality({p \in 1..QuotePrefixLen(ln) : ln[p] = ">"})

(***************************************************************************)
(* C11. Blank lines around list blocks: in the returned text, outside      *)
(* fenced code, every list item is immediately preceded by the start of    *)
(* the text, a blank or quote-blank line, a heading, or a list item of the *)
(* same blockquote prefix, and immediately followed by the end of the      *)
(* text, a blank or quote-blank line, or a list item.                      *)
(***************************************************************************)
C11_BlankAroundLists ==
    (Done /\ round = 1) =>
        \A k \in 1..Len(ResultLines) :
            ListItem(ResultLines, k) =>
                /\ k > 1 =>
                     \/ BlankLine(ResultLines, k - 1)
                     \/ ~Verbatim(ResultLines, k - 1) /\ is_heading(ResultLines[k - 1])
                     \/ /\ ListItem(ResultLines, k - 1)
                        /\ QuoteDepth(ResultLines[k - 1]) = QuoteDepth(ResultLines[k])
                /\ k < Len(ResultLines) =>
                     \/ BlankLine(ResultLines, k + 1)
                     \/ ListItem(ResultLines, k + 1)

(***************************************************************************)
(* C12. Marker normalization: in the returned text, outside fenced code,   *)
(* every list item (with or without blockquote prefix) has exactly one     *)
(* space between its marker and its content, and no unordered item has the *)
(* marker "*" or "+", whatever spaces or tabs follow the marker in the     *)
(* argument.                                                               *)
(***************************************************************************)
MarkerVocab ==
    { <<"*", " ", " ", "a">>,
      <<"+", "\t", "a">>,
      <<"1", ".", " ", " ", "a">>,
      <<">", " ", "*", " ", " ", " ", "a">>,
      <<" ", " ", "2", ")", "\t", "a">>,
      <<" ", " ", " ", " ", "-", " ", " ", "a">>,
      <<"U+FF11", ".", "U+3000", "a">>,
      <<"x">>,
      FenceMarker }

InitMarkers == InitOver(MarkerVocab, MaxLines)

SpecMarkers == InitMarkers /\ [][Next]_vars

\* 0-based end of the marker of a list-item body: after "-", "*", "+" or
\* after the delimiter of an ordered marker
MarkerEnd(body) ==
    IF body[IndentLen(body) + 1] \in Digits THEN OlNumEnd(body) + 1
    ELSE IndentLen(body) + 1

OneSpaceAfterMarker(body) ==
    /\ Len(body) >= MarkerEnd(body) + 2
    /\ body[MarkerEnd(body) + 1] = " "
    /\ body[MarkerEnd(body) + 2] \notin WS

DashOrOrdered(body) == body[IndentLen(body) + 1] \in Digits \cup {"-"}

\* the marker of a source line is followed by a tab or by several spaces
WideMarker(ln) ==
    /\ ReListMatch(strip_blockquote(ln))
    /\ ~OneSpaceAfterMarker(strip_blockquote(ln))

C12_MarkerNormalized ==
    Done =>
        \A k \in 1..Len(ResultLines) :
            ListItem(ResultLines, k) =>
                /\ OneSpaceAfterMarker(strip_blockquote(ResultLines[k]))
                /\ DashOrOrdered(strip_blockquote(ResultLines[k]))

\* a first call on a document with a blockquoted "*" item, an ordered item
\* and a "+" item, each with wide spacing after the marker, has returned
\* three list items
C12_Witness ==
    /\ Done
    /\ round = 1
    /\ \E a, b, c \in 1..Len(src) :
        /\ WideMarker(src[a]) /\ QuotePrefixLen(src[a]) > 0
        /\ strip_blockquote(src[a])[1] = "*"
        /\ WideMarker(src[b]) /\ ReOlMarkerEnd(src[b]) >= 0
        /\ WideMarker(src[c]) /\ src[c][1] = "+"
    /\ Cardinality({k \in 1..Len(ResultLines) : ListItem(ResultLines, k)}) = 3

(***************************************************************************)
(* C14. Code-fence toggling ignores the blockquote prefix: a line whose    *)
(* body, after its blockquote prefix is stripped, starts with three        *)
(* backticks toggles the in-code flag in every pass that tracks it, and    *)
(* pass 1 emits such a line and every line read while the flag is set      *)
(* exactly as it was received.                                             *)
(***************************************************************************)
QuotedFenceVocab ==
    { <<">", " ">> \o FenceMarker,
      FenceMarker,
      <<">", " ">> \o HttpScheme \o <<"a">>,
      <<">", " ", "3", ".", " ", "a">>,
      <<"#", " ", "A", ":">>,
      <<"*", " ", " ", "a">>,
      <<"x">>,
      <<>> }

InitQuotedFence == InitOver(QuotedFenceVocab, MaxLines)

SpecQuotedFence == InitQuotedFence /\ [][Next]_vars

\* the body of the line, its blockquote prefix ignored, starts with a fence
QuotedFence(ln) == StartsWith(Strip(strip_blockquote(ln)), FenceMarker)

\* the number of such lines among the first k lines is odd
QuotedFenceOpen(lines, k) ==
    Cardinality({j \in 1..k : QuotedFence(lines[j])}) % 2 = 1

C14_QuotedFenceToggles ==
    /\ pc \in {"pass1", "pass2", "pass4"} =>
           in_code = QuotedFenceOpen(PassLines, i)
    /\ (pc = "pass1" /\ i > 0
            /\ (QuotedFence(src[i]) \/ QuotedFenceOpen(src, i - 1))) =>
           (out # <<>> /\ Last(out) = src[i])

(***************************************************************************)
(* scripts/readme_warning.py: the warning block at the top of README.md.   *)
(***************************************************************************)
WARNING_START ==
    <<"<", "!", "-", "-", " ", "R", "D", "M", "E", "_", "T", "O", "M", "L", "_",
      "A", "U", "T", "O", "G", "E", "N", "_", "W", "A", "R", "N", "I", "N", "G",
      "_", "S", "T", "A", "R", "T", " ", "-", "-", ">">>

WARNING_END ==
    <<"<", "!", "-", "-", " ", "R", "D", "M", "E", "_", "T", "O", "M", "L", "_",
      "A", "U", "T", "O", "G", "E", "N", "_", "W", "A", "R", "N", "I", "N", "G",
      "_", "E", "N", "D", " ", "-", "-", ">">>

\* the message used when --message is empty
DefaultMessage ==
    <<"T", "O", "M", "L", " ", "U+81EA", "U+52A8", "U+5316", "U+683C", "U+5F0F",
      "U+5316", "/", "U+751F", "U+6210", " ", "R", "E", "A", "D", "M", "E", " ",
      "U+5931", "U+8D25", "U+FF0C", "U+8BF7", "U+68C0", "U+67E5", " ", "r", "e",
      "a", "d", "m", "e", ".", "t", "o", "m", "l", "U+3002">>

\* text.find(p): the 0-based position of the first occurrence, -1 if none
Find(text, p) ==
    IF Contains(text, p)
    THEN CHOOSE k \in 0..(Len(text) - Len(p)) :
             /\ Slice(text, k, k + Len(p)) = p
             /\ \A j \in 0..(k - 1) : Slice(text, j, j + Len(p)) # p
    ELSE -1

\* s.lstrip("\n")
LStripNewlines(s) == From(s, RunLen(s, 0, {"\n"}))

build_block(message) ==
    JoinLines(<< WARNING_START,
                 <<">", " ", "[", "!", "W", "A", "R", "N", "I", "N", "G", "]">>,
                 <<">", " ">> \o (IF Strip(message) # <<>> THEN Strip(message)
                                  ELSE DefaultMessage),
                 WARNING_END,
                 <<>>,
                 <<>> >>)

\* the text from the first WARNING_START to the end of the first
\* WARNING_END is cut out
strip_block(text) ==
    IF ~Contains(text, WARNING_START) THEN text
    ELSE IF Find(text, WARNING_END) = -1 THEN text
    ELSE LET after == LStripNewlines(From(text, Find(text, WARNING_END) + Len(WARNING_END)))
             head == Slice(text, 0, Find(text, WARNING_START))
             before == IF head # <<>> /\ Last(head) = "\n"
                       THEN Slice(head, 0, Len(head) - 1) ELSE head
         IN  LStripNewlines(IF before # <<>> THEN before \o <<"\n">> \o after
                            ELSE after)

ensure_block_at_top(text, message) ==
    IF Strip(strip_block(text)) = <<>> THEN build_block(message)
    ELSE build_block(message) \o LStripNewlines(strip_block(text))

\* text.replace("\r\n", "\n").replace("\r", "\n"), computed on the two
\* halves of the text; a "\r\n" pair is never cut in two
RECURSIVE normalize_newlines(_)
normalize_newlines(text) ==
    IF Len(text) <= 2
    THEN IF text = <<"\r", "\n">> THEN <<"\n">>
         ELSE [k \in 1..Len(text) |-> IF text[k] = "\r" THEN "\n" ELSE text[k]]
    ELSE LET m == Len(text) \div 2
             c == IF text[m] = "\r" /\ text[m + 1] = "\n" THEN m + 1 ELSE m
         IN  normalize_newlines(Slice(text, 0, c)) \o normalize_newlines(From(text, c))

\* main: the text read from README.md ("" when there is no file)
ReadText == IF readme_exists THEN normalize_newlines(readme) ELSE <<>>

\* main: README.md is written when the new text differs from the text read
WriteIfChanged(text, new_text, op, message) ==
    /\ readme' = IF new_text # text THEN new_text ELSE readme
    /\ readme_exists' = (readme_exists \/ new_text # text)
    /\ previous' = readme
    /\ runs' = Append(runs, [op |-> op, message |-> message])
    /\ UNCHANGED original

MaxRuns == 2

Messages == {<<>>, <<"m">>, <<" ", "m", "\n">>, WARNING_END}

\* one run with --set and --message message
SetWarning ==
    /\ pc \in {"idle", "done"}
    /\ Len(runs) < MaxRuns
    /\ \E message \in Messages :
       \E text \in {ReadText} :
       \E new_text \in {ensure_block_at_top(text, message)} :
           WriteIfChanged(text, new_text, "set", message)
    /\ UNCHANGED <<src, pc, i, pass1State, laterState, result, callerState>>

\* one run with --clear
ClearWarning ==
    /\ pc \in {"idle", "done"}
    /\ Len(runs) < MaxRuns
    /\ \E text \in {ReadText} :
       \E new_text \in {strip_block(text)} :
           WriteIfChanged(text, new_text, "clear", <<>>)
    /\ UNCHANGED <<src, pc, i, pass1State, laterState, result, callerState>>

\* render_readme_from_toml_path for a readme.toml with a course name, and
\* with a course name and a description
RenderedTexts ==
    { <<"#", " ", "A", "\n">>,
      <<"#", " ", "A", "\n", "\n", "x", "\n">> }

\* convert_one up to the call of the normalizer: the text is rendered, and
\* FileExistsError is raised when README.md exists and overwrite is not set;
\* the steps of the normalizer follow and Return writes README.md
convert_one ==
    /\ pc \in {"idle", "done"}
    /\ Len(runs) < MaxRuns
    /\ \E text \in RenderedTexts, overwrite \in BOOLEAN :
           /\ ~(readme_exists /\ ~overwrite)
           /\ md' = text
           /\ first_md' = text
    /\ pc' = "start"
    /\ round' = 1
    /\ first_result' = <<>>
    /\ result' = <<>>
    /\ src' = <<>>
    /\ i' = 0
    /\ out' = <<>>
    /\ in_code' = FALSE
    /\ list_indent_stack' = <<>>
    /\ ol_counters' = EmptyDict
    /\ last_list_type' = EmptyDict
    /\ ol_marker_width' = EmptyDict
    /\ last_heading_level' = 0
    /\ prev_list' = NoPrevList
    /\ out2' = <<>>
    /\ collapsed' = <<>>
    /\ blank_run' = 0
    /\ final_lines' = <<>>
    /\ heading_counts' = EmptyDict
    /\ have_h1' = FALSE
    /\ previous' = readme
    /\ runs' = Append(runs, [op |-> "convert", message |-> <<>>])
    /\ UNCHANGED <<readme_exists, readme, original>>

\* the runs of the two scripts on one README.md
NextWarning ==
    \/ SetWarning
    \/ ClearWarning
    \/ convert_one
    \/ Begin
    \/ Pass1Step
    \/ StartPass2
    \/ Pass2Step
    \/ StartPass3
    \/ Pass3Step
    \/ TrimAndStartPass4
    \/ Pass4Step
    \/ Return

(***************************************************************************)
(* README texts: at most MaxPieces pieces, each a marker, a newline, a     *)
(* space or a letter.                                                      *)
(***************************************************************************)
MaxPieces == 3

ReadmePieces == {WARNING_START, WARNING_END, <<"\n">>, <<" ">>, <<"a">>, <<"\r">>}

RECURSIVE Concat(_)
Concat(pieces) ==
    IF pieces = <<>> THEN <<>> ELSE pieces[1] \o Concat(Tail(pieces))

ReadmeTexts == {Concat(d) : d \in Docs(ReadmePieces, MaxPieces)}

InitWarning ==
    /\ NormalizerAt(<<>>, "idle")
    /\ readme_exists \in BOOLEAN
    /\ readme \in (IF readme_exists THEN ReadmeTexts ELSE {<<>>})
    /\ original = readme
    /\ previous = readme
    /\ runs = <<>>

SpecWarning == InitWarning /\ [][NextWarning]_vars

\* the number of occurrences of p in text, overlapping ones included
Occurrences(text, p) ==
    Cardinality({k \in 0..(Len(text) - Len(p)) : Slice(text, k, k + Len(p)) = p})

(***************************************************************************)
(* C13. The warning block is idempotent: a second run with --set and the   *)
(* same message leaves README.md as the first run left it; after a run     *)
(* with --set the text starts with the warning block and holds exactly one *)
(* WARNING_START and one WARNING_END; and for a text without markers a run *)
(* with --set followed by a run with --clear gives the text back, its      *)
(* leading newlines removed.                                               *)
(***************************************************************************)
C13_WarningIdempotent ==
    /\ (/\ Len(runs) >= 2
        /\ runs[Len(runs)].op = "set"
        /\ runs[Len(runs) - 1] = runs[Len(runs)]) =>
           readme = previous
    /\ (runs # <<>> /\ Last(runs).op = "set") =>
           /\ StartsWith(readme, build_block(Last(runs).message))
           /\ Occurrences(readme, WARNING_START) = 1
           /\ Occurrences(readme, WARNING_END) = 1
    /\ (/\ Len(runs) = 2
        /\ runs[1].op = "set"
        /\ runs[2].op = "clear"
        /\ ~Contains(original, WARNING_START)
        /\ ~Contains(original, WARNING_END)
        /\ ~Contains(runs[1].message, WARNING_START)
        /\ ~Contains(runs[1].message, WARNING_END)) =>
           readme = LStripNewlines(original)

(***************************************************************************)
(* C15. Unordered-item rewriting changes only the indentation and the      *)
(* marker: when pass 1 has read an unordered item outside fenced code, the *)
(* line it has emitted last is a list item with the same text after the    *)
(* marker as the line read, also for an item at indentation 2 that ends in *)
(* "(NN%)" and follows a non-percent item at indentation 2 or sits under   *)
(* an ordered item.                                                        *)
(***************************************************************************)
PercentVocab ==
    { <<"-", " ", "a">>,
      <<" ", " ", "-", " ", "b">>,
      <<" ", " ", "-", " ", "a", " ", "(", "5", "%", ")">>,
      <<" ", " ", "-", " ", "a", "b", " ", "5", "%">>,
      <<" ", " ", "-", " ", "c", " ", "z", "5", "%">>,
      <<" ", " ", "-", " ", "c", " ", "U+2265", "5", "%">>,
      <<"1", ".", " ", "x">>,
      <<" ", " ", " ", " ", " ", " ", "*", " ", "c">>,
      <<">", " ", " ", " ", "-", " ", "a", " ", "U+FF08", "5", "%", "U+FF09">>,
      <<"x">> }

InitPercent == InitOver(PercentVocab, MaxLines)

SpecPercent == InitPercent /\ [][Next]_vars

\* the line is an unordered item with content
UnorderedItem(ln) ==
    /\ ReUlMarkerEnd(strip_blockquote(ln)) >= 0 \/ ReUlDashEnd(strip_blockquote(ln)) >= 0
    /\ ~is_orphan_marker(strip_blockquote(ln))

\* the text of an unordered item after its marker
ItemText(ln) ==
    Strip(From(strip_blockquote(ln), IndentLen(strip_blockquote(ln)) + 1))

C15_UnorderedKeepsText ==
    (/\ pc = "pass1"
     /\ i > 0
     /\ ~in_code
     /\ ~is_code_fence(src[i])
     /\ UnorderedItem(ExpandTabs(src[i]))) =>
        /\ out # <<>>
        /\ UnorderedItem(Last(out))
        /\ ItemText(Last(out)) = ItemText(ExpandTabs(src[i]))

(***************************************************************************)
(* Documents of list items, quote-blank lines and headings.                *)
(***************************************************************************)
ContextVocab ==
    { <<"1", ".", " ", "a">>,
      <<">", " ", "1", ".", " ", "a">>,
      <<">">>,
      <<>>,
      <<"1", "0", ".", " ", "a">>,
      <<" ", " ", "-", " ", "b">>,
      <<"#", " ", "A">>,
      <<"*", "*", "A", "*", "*">> }

InitContext == InitOver(ContextVocab, MaxLines)

SpecContext == InitContext /\ [][Next]_vars

\* pass 1 is about to read a line outside fenced code
ReadsOutsideCode ==
    pc = "pass1" /\ i < Len(src) /\ ~in_code /\ ~is_code_fence(src[i + 1])

\* lines j+1 .. k-1 are blank or quote-blank
OnlyBlankBetween(lines, j, k) ==
    \A m \in (j + 1)..(k - 1) : is_blankish(lines[m])

(***************************************************************************)
(* C16. Blank lines do not clear list context: a blank line, also a        *)
(* quote-blank line (blockquote markers only), read by pass 1 outside      *)
(* fenced code leaves the indentation stack, the counters, the list types  *)
(* and the marker widths unchanged; and in the output of pass 1 an ordered *)
(* item that follows an ordered item of the same indentation, with only    *)
(* blank or quote-blank lines between them, carries the next number.       *)
(***************************************************************************)
C16_BlankKeepsListContext ==
    /\ [][(ReadsOutsideCode /\ is_blankish(ExpandTabs(src[i + 1])))
              => UNCHANGED listState]_vars
    /\ [](pc = "pass2" =>
            \A j, k \in 1..Len(out) :
                (/\ j < k
                 /\ OrderedItem(out, j)
                 /\ OrderedItem(out, k)
                 /\ ItemIndent(out[j]) = ItemIndent(out[k])
                 /\ OnlyBlankBetween(out, j, k)) =>
                    ItemNumber(out[k]) = ItemNumber(out[j]) + 1)

(***************************************************************************)
(* C17. Continuation lines keep list context: when pass 1 reads, outside   *)
(* fenced code and with a list open, a line that is neither blank nor a    *)
(* list item nor a heading, it clears the indentation stack, the counters, *)
(* the list types and the marker widths if the indentation of the line is  *)
(* less than the top of the stack plus 2, and leaves all four unchanged    *)
(* otherwise, so that the next ordered item continues the numbering.       *)
(***************************************************************************)
\* the line as pass 1 splits it
BodyOf(ln) == split_blockquote_prefix(ExpandTabs(ln)).body

\* neither blank, quote-blank, list item, orphan marker, heading nor bold-only
PlainLine(ln) ==
    /\ ~is_blankish(ExpandTabs(ln))
    /\ ~ReListMatch(BodyOf(ln))
    /\ ~is_orphan_marker(BodyOf(ln))
    /\ ~is_heading(ExpandTabs(ln))
    /\ BoldTextLens(BodyOf(ln)) = {}

C17_ContinuationKeepsContext ==
    [][(/\ ReadsOutsideCode
        /\ list_indent_stack # <<>>
        /\ PlainLine(src[i + 1])) =>
            IF leading_ws_len(BodyOf(src[i + 1])) < Last(list_indent_stack) + 2
            THEN /\ list_indent_stack' = <<>>
                 /\ ol_counters' = EmptyDict
                 /\ last_list_type' = EmptyDict
                 /\ ol_marker_width' = EmptyDict
            ELSE UNCHANGED listState]_vars

(***************************************************************************)
(* C18. Each nested ordered sub-list is numbered from 1: in the returned   *)
(* text an ordered item that directly follows a list item of smaller       *)
(* indentation (its parent) carries the number 1, also when an earlier     *)
(* parent had a sub-list of the same indentation.                          *)
(***************************************************************************)
C18_NestedFromOne ==
    (Done /\ round = 1) =>
        \A k \in 2..Len(ResultLines) :
            (/\ OrderedItem(ResultLines, k)
             /\ ListItem(ResultLines, k - 1)
             /\ ItemIndent(ResultLines[k - 1]) < ItemIndent(ResultLines[k])) =>
                ItemNumber(ResultLines[k]) = 1

(***************************************************************************)
(* C19. Nested unordered items under an ordered item: in the returned text *)
(* an unordered item that directly follows an ordered item and is indented *)
(* deeper than it stands at the indentation of the ordered item plus the   *)
(* width of its marker as returned (digits, delimiter and one space).      *)
(***************************************************************************)
\* the width of the marker of an ordered item: "1. " 3, "10. " 4
MarkerWidth(ln) == OlNumEnd(strip_blockquote(ln)) - ItemIndent(ln) + 2

C19_NestedUnderOrdered ==
    (Done /\ round = 1) =>
        \A k \in 2..Len(ResultLines) :
            (/\ ~Verbatim(ResultLines, k)
             /\ UnorderedItem(ResultLines[k])
             /\ OrderedItem(ResultLines, k - 1)
             /\ ItemIndent(ResultLines[k]) > ItemIndent(ResultLines[k - 1])) =>
                ItemIndent(ResultLines[k]) =
                    ItemIndent(ResultLines[k - 1]) + MarkerWidth(ResultLines[k - 1])

(***************************************************************************)
(* C20. A heading terminates any open list: when pass 1 reads, outside     *)
(* fenced code, a heading line outside a blockquote (explicit, or promoted *)
(* from a bold-only line), it clears the whole list context: the           *)
(* indentation stack, the ordered counters, the list types and the marker  *)
(* widths.                                                                 *)
(***************************************************************************)
\* the line is emitted by pass 1 as a heading outside a blockquote
HeadingLine(ln, last_level) ==
    /\ ~is_blank(ExpandTabs(ln))
    /\ QuotePrefixLen(ExpandTabs(ln)) = 0
    /\ ReHeadingEnd(Strip(RewriteInline(<<>>, ExpandTabs(ln), last_level))) >= 0

C20_HeadingClearsListContext ==
    [][(ReadsOutsideCode /\ HeadingLine(src[i + 1], last_heading_level)) =>
            /\ list_indent_stack' = <<>>
            /\ ol_counters' = EmptyDict
            /\ last_list_type' = EmptyDict
            /\ ol_marker_width' = EmptyDict]_vars

(***************************************************************************)
(* C21. Indentation-stack invariant: after pass 1 has read any number of   *)
(* lines the list indentation stack is strictly increasing from outer to   *)
(* inner, and when the line read last is a list item outside fenced code   *)
(* the top of the stack is the indentation of the item as emitted.         *)
(***************************************************************************)
StrictlyIncreasing(stack) ==
    \A k \in 1..(Len(stack) - 1) : stack[k] < stack[k + 1]

\* the line pass 1 has read last is a list item with content, outside
\* fenced code
ReadListItem ==
    /\ pc = "pass1"
    /\ i > 0
    /\ ~in_code
    /\ ~is_code_fence(src[i])
    /\ ReListMatch(BodyOf(src[i]))
    /\ ~is_orphan_marker(BodyOf(src[i]))

C21_StackInvariant ==
    pc = "pass1" =>
        /\ StrictlyIncreasing(list_indent_stack)
        /\ ReadListItem =>
               /\ list_indent_stack # <<>>
               /\ is_list(Last(out))
               /\ Last(list_indent_stack) = ItemIndent(Last(out))

\* pass 1 has read a nested item, which pushed its indentation, and then an
\* item of the outer level, which popped it
C21_Witness ==
    /\ ReadListItem
    /\ round = 1
    /\ i >= 3
    /\ list_indent_stack = <<0>>
    /\ Len(out) >= 3
    /\ is_list(out[Len(out) - 1])
    /\ ItemIndent(out[Len(out) - 1]) > 0
    /\ is_list(out[Len(out) - 2])
    /\ ItemIndent(out[Len(out) - 2]) = 0

(***************************************************************************)
(* Documents of bold-only lines and headings.                              *)
(***************************************************************************)
BoldVocab ==
    { <<"*", "*", "A", "*", "*">>,
      <<"_", "_", "A", "_", "_">>,
      <<"#", "#", "#", "#", "#", "#", " ", "A">>,
      <<"#", " ", "A">>,
      <<">", " ", "*", "*", "A", "*", "*">>,
      <<" ", " ", "*", "*", "A", "*", "*">>,
      <<"*", "*", "#", "A", "*", "*">>,
      <<">", " ", "#", "#", " ", "A">>,
      <<"*", "*", "-", " ", "a", "*", "*">>,
      <<"*", "*">> \o HttpScheme \o <<"a", "*", "*">>,
      FenceMarker }

InitBold == InitOver(BoldVocab, MaxLines)

SpecBold == InitBold /\ [][Next]_vars

\* the text is wrapped in bold marks: two marks, at least one character,
\* two marks
BoldWrapped(s) ==
    /\ Len(s) >= 5
    /\ Slice(s, 0, 2) \in BoldMarks
    /\ Slice(s, Len(s) - 2, Len(s)) \in BoldMarks

\* the text between the marks, trimmed
BoldInner(s) == Strip(Slice(Strip(s), 2, Len(Strip(s)) - 2))

\* the line has no blockquote prefix and no leading indentation and its
\* whole trimmed body is "**text**" or "__text__"
ClaimedBoldOnly(ln) ==
    /\ ln # <<>>
    /\ ln[1] \notin WS \cup {">"}
    /\ BoldWrapped(Strip(ln))
    /\ Slice(Strip(ln), 0, 2) = Slice(Strip(ln), Len(Strip(ln)) - 2, Len(Strip(ln)))

\* the step of pass 1 emits the heading of the given level and text, less
\* its trailing punctuation, and makes it the most recent heading
EmitsHeading(level, text) ==
    /\ last_heading_level' = level
    /\ \E k \in (Len(out) + 1)..Len(out') :
           out'[k] = strip_heading_trailing_punct(Hashes(level) \o <<" ">> \o text)

\* clamp(last + 1, 2, 6)
ClampedNext(last) ==
    IF last + 1 < 2 THEN 2 ELSE IF last + 1 > 6 THEN 6 ELSE last + 1

(***************************************************************************)
(* C22. Bold-only promotion.  As claimed: when pass 1 reads, outside       *)
(* fenced code, a line without blockquote prefix and leading indentation   *)
(* whose whole trimmed body is "**text**" or "__text__", it emits a        *)
(* heading of level clamp(L + 1, 2, 6), L the level of the most recent     *)
(* heading, and that heading becomes the most recent heading.              *)
(***************************************************************************)
C22_BoldPromoted ==
    [][(ReadsOutsideCode /\ ClaimedBoldOnly(ExpandTabs(src[i + 1]))) =>
            EmitsHeading(ClampedNext(last_heading_level),
                         BoldInner(ExpandTabs(src[i + 1])))]_vars

\* the source line is a heading outside blockquotes
SourceHeading(ln) ==
    /\ QuotePrefixLen(ExpandTabs(ln)) = 0
    /\ ReHeadingEnd(Strip(ExpandTabs(ln))) >= 0

\* the text has no blockquote prefix and no leading indentation, it is
\* wrapped in bold marks when trimmed, and the wrapped text is not empty and
\* is not itself a heading, a blockquote or a list item
BoldOnlyText(s) ==
    /\ s # <<>>
    /\ s[1] \notin WS \cup {">"}
    /\ BoldWrapped(Strip(s))
    /\ BoldInner(s) # <<>>
    /\ ~StartsWith(BoldInner(s), <<"#">>)
    /\ ~StartsWith(BoldInner(s), <<">">>)
    /\ ~ReListMatch(BoldInner(s))

\* the line is bold-only once its bare URLs are wrapped
BoldOnly(ln) == BoldOnlyText(WrapBareUrls(ln))

\* a bold-wrapped body behind a blockquote prefix or leading indentation
BoldQuotedOrIndented(ln) ==
    /\ ~is_blankish(ln)
    /\ ln[1] \in WS \cup {">"}
    /\ BoldWrapped(Strip(BodyOf(ln)))

\* the level of the most recent heading among the first k source lines,
\* outside blockquotes and fenced code, promoted bold-only lines included;
\* 0 when there is none
RECURSIVE LevelAfter(_, _)
LevelAfter(lines, k) ==
    IF k = 0 THEN 0
    ELSE IF Verbatim(lines, k) THEN LevelAfter(lines, k - 1)
    ELSE IF SourceHeading(lines[k])
         THEN RunLen(Strip(ExpandTabs(lines[k])), 0, {"#"})
    ELSE IF BoldOnly(ExpandTabs(lines[k]))
         THEN ClampedNext(LevelAfter(lines, k - 1))
    ELSE LevelAfter(lines, k - 1)

(***************************************************************************)
(* C22, amended.  When pass 1 reads, outside fenced code, a line without   *)
(* blockquote prefix and leading indentation whose whole trimmed body,     *)
(* once its bare URLs are wrapped, is wrapped in bold marks, and the       *)
(* wrapped text is not empty, does not start with "#" or ">" and is not a  *)
(* list item, it emits the heading of level clamp(L + 1, 2, 6) with that   *)
(* text, L the level of the most recent heading outside blockquotes and    *)
(* fenced code (0 if none), and the promoted heading becomes the most      *)
(* recent heading.  A bold-wrapped body behind a blockquote prefix or      *)
(* leading indentation emits no heading and leaves the level alone.        *)
(***************************************************************************)
C22_BoldOnlyPromoted ==
    /\ [][/\ (ReadsOutsideCode /\ BoldOnly(ExpandTabs(src[i + 1]))) =>
                 /\ last_heading_level = LevelAfter(src, i)
                 /\ EmitsHeading(ClampedNext(LevelAfter(src, i)),
                                 BoldInner(WrapBareUrls(ExpandTabs(src[i + 1]))))
          /\ (ReadsOutsideCode /\ BoldQuotedOrIndented(ExpandTabs(src[i + 1]))) =>
                 /\ last_heading_level' = last_heading_level
                 /\ \A k \in (Len(out) + 1)..Len(out') : ~is_heading(out'[k])]_vars
    /\ [](pc = "pass1" => last_heading_level = LevelAfter(src, i))

\* "**A**" read first became "## A", and "**A**" read after a level-6
\* heading became "###### A", the most recent heading
C22_Witness ==
    /\ pc = "pass1" /\ round = 1 /\ i = 3 /\ Len(src) = 3
    /\ BoldOnly(src[1]) /\ out[1] = <<"#", "#", " ", "A">>
    /\ src[2] = <<"#", "#", "#", "#", "#", "#", " ", "A">>
    /\ BoldOnly(src[3]) /\ Last(out) = src[2]
    /\ last_heading_level = 6

\* the line consists of blockquote markers only
QuoteBlankLine(ln) == QuotePrefixLen(ln) > 0 /\ QuotePrefixLen(ln) = Len(ln)

(***************************************************************************)
(* C23. Blank-run collapsing: in the output of pass 3 no two blank or      *)
(* quote-blank lines are adjacent and every such line is the empty line,   *)
(* also when the run began with a quote-blank line; and in the final       *)
(* output no line outside fenced code consists of blockquote markers only. *)
(***************************************************************************)
C23_BlankRunsCollapse ==
    /\ pc = "pass3" =>
           \A k \in 1..Len(collapsed) :
               is_blankish(collapsed[k]) =>
                   /\ collapsed[k] = <<>>
                   /\ k > 1 => ~is_blankish(collapsed[k - 1])
    /\ pc = "done" =>
           \A k \in 1..Len(ResultLines) :
               ~Verbatim(ResultLines, k) => ~QuoteBlankLine(ResultLines[k])

====
